---- MODULE Spec2Model ----
(***************************************************************************)
(* A model of mpesa-tools: the rule-based classification engine and the    *)
(* ledger aggregation/rendering stage of src/mpesatools/ledgerfy.py.       *)
(*                                                                         *)
(* Python strings are modelled as sequences of one-character strings, so   *)
(* that lower(), the substring test "k in s", split(" ")[0], startswith()  *)
(* and the lexicographic comparison of strings are computed, not assumed.  *)
(* Python dicts are modelled as functions whose DOMAIN is the set of keys  *)
(* that are present, so that a missing key and dict.get(key, default) are  *)
(* what they are in the code.                                              *)
(***************************************************************************)
EXTENDS Integers, Sequences, FiniteSets, TLC

VARIABLES
    config,                 \* the loaded configuration (a dict)
    \* ---- one call of categorize_transaction ----
    cpc,                    \* position in categorize_transaction
    details,                \* argument: the transaction details
    amount,                 \* argument: the amount (in cents)
    details_lower,          \* local: details.lower()
    rule_i,                 \* index of the rule the for loop is at
    evaluated,              \* indices of the rules whose condition was eval()ed
    result,                 \* the returned account (<<>> before the return)
    returned_by,            \* index of the rule that returned (0: line 152)
    \* ---- one run of ledgerfy_main ----
    pc,                     \* position in the run
    input_exists,           \* Path(args.input_file).exists()
    rows,                   \* the records of the input file
    start_date,             \* args.start_date
    end_date,               \* args.end_date (<<>> when not given)
    row_i,                  \* number of input records consumed by the loop
    transactions_by_date,   \* defaultdict(list): date -> accepted records
    out_opened,             \* open(output_file_path, "w") was called
    ledger_file,            \* the lines written to the output file
    stdout,                 \* the messages printed
    exit_code,              \* the value ledgerfy_main returned (-1: running)
    \* ---- one run of the SMS script (xtract-android.py) ----
    spc,                    \* position in the script
    sms_list,               \* the messages fetch_sms returned
    sms_i,                  \* number of messages consumed by process_data
    all_transactions,       \* the records process_data has collected
    \* ---- one call of extract_mpesa_data_from_pdf (xtract.py) ----
    xpc,                    \* position in the call
    table,                  \* the rows of the extracted table
    table_i,                \* number of rows consumed by the loop
    transactions            \* the records the call has collected

classify_vars == <<cpc, details, amount, details_lower, rule_i, evaluated,
                   result, returned_by>>

ledger_vars == <<pc, input_exists, rows, start_date, end_date, row_i,
                 transactions_by_date, out_opened, ledger_file, stdout,
                 exit_code>>

sms_vars == <<spc, sms_list, sms_i, all_transactions>>

pdf_vars == <<xpc, table, table_i, transactions>>

extract_vars == <<sms_vars, pdf_vars>>

vars == <<config, classify_vars, ledger_vars, extract_vars>>

----------------------------------------------------------------------------
(* Bounds of the model.                                                    *)

MaxRules == 2        \* longest rule list of a configuration

MaxDetailsLen == 2   \* longest details string given to the classifier

MaxRows == 2         \* most records in one input file

----------------------------------------------------------------------------
(* Strings.                                                                *)

\* The characters of dates, times and decimal numbers in code point order
\* (ASCII): ' ' < '-' < '.' < '0' .. '9' < ':'.
CharOrder ==
    <<" ", "-", ".", "0", "1", "2", "3", "4", "5", "6", "7", "8", "9", ":">>

Code(c) == CHOOSE i \in 1..Len(CharOrder) : CharOrder[i] = c

UpperCase ==
    <<"A", "B", "C", "D", "E", "F", "G", "H", "I", "J", "K", "L", "M",
      "N", "O", "P", "Q", "R", "S", "T", "U", "V", "W", "X", "Y", "Z">>

LowerCase ==
    <<"a", "b", "c", "d", "e", "f", "g", "h", "i", "j", "k", "l", "m",
      "n", "o", "p", "q", "r", "s", "t", "u", "v", "w", "x", "y", "z">>

\* str.lower() on one character.
LowerChar(c) ==
    IF \E i \in 1..Len(UpperCase) : UpperCase[i] = c
    THEN LowerCase[CHOOSE i \in 1..Len(UpperCase) : UpperCase[i] = c]
    ELSE c

\* str.lower()
Lower(s) == [i \in 1..Len(s) |-> LowerChar(s[i])]

\* Python's `k in s` for strings: k occurs in s as a contiguous substring.
IsSubstring(k, s) ==
    \E i \in 0..(Len(s) - Len(k)) : SubSeq(s, i + 1, i + Len(k)) = k

\* str.startswith(prefix)
StartsWith(s, prefix) ==
    /\ Len(prefix) <= Len(s)
    /\ SubSeq(s, 1, Len(prefix)) = prefix

\* Python's s < t on strings: lexicographic by code point, a proper prefix
\* is smaller.
RECURSIVE StrLess(_, _)
StrLess(s, t) ==
    IF t = <<>> THEN FALSE
    ELSE IF s = <<>> THEN TRUE
    ELSE IF Code(Head(s)) < Code(Head(t)) THEN TRUE
    ELSE IF Code(Head(s)) > Code(Head(t)) THEN FALSE
    ELSE StrLess(Tail(s), Tail(t))

\* s.split(" ")[0]: the part of s before the first space (all of s when it
\* has no space).
RECURSIVE SplitFirst(_)
SplitFirst(s) ==
    IF s = <<>> \/ Head(s) = " " THEN <<>>
    ELSE <<Head(s)>> \o SplitFirst(Tail(s))

\* All sequences over S of length at most n.
SeqsUpTo(S, n) == UNION {[1..k -> S] : k \in 0..n}

----------------------------------------------------------------------------
(* Dicts.                                                                  *)

\* d.get(key, default)
Get(d, key, default) == IF key \in DOMAIN d THEN d[key] ELSE default

----------------------------------------------------------------------------
(* The classification engine.                                              *)

\* Outcome of eval(condition, {"amount": amount}) for the conditions of the
\* model: raised says that an Exception was raised (SyntaxError for the
\* malformed "amount >", ZeroDivisionError for "1 / amount > 0" at amount 0,
\* NameError for "amnt > 1"); truthy is the truth value of the result
\* otherwise. Amounts are in cents, so 1 (KES) is 100.
EvalCondition(condition, amt) ==
    CASE condition = "amount > 1" ->
            [raised |-> FALSE, truthy |-> amt > 100]
      [] condition = "amount <= 1" ->
            [raised |-> FALSE, truthy |-> amt <= 100]
      [] condition = "amount" ->
            [raised |-> FALSE, truthy |-> amt # 0]
      [] condition = "1 / amount > 0" ->
            IF amt = 0 THEN [raised |-> TRUE, truthy |-> FALSE]
            ELSE [raised |-> FALSE, truthy |-> amt > 0]
      [] condition = "amount >" ->
            [raised |-> TRUE, truthy |-> FALSE]
      [] OTHER ->
            [raised |-> TRUE, truthy |-> FALSE]

check_keywords_match_any_only(dl, keywords, match_type, exclude) ==
    IF keywords = <<>> THEN FALSE
    ELSE IF exclude # <<>>
            /\ \E j \in 1..Len(exclude) : IsSubstring(exclude[j], dl)
         THEN FALSE
    ELSE \E j \in 1..Len(keywords) : IsSubstring(keywords[j], dl)

check_keywords_match_no_exclude(dl, keywords, match_type, exclude) ==
    IF keywords = <<>> THEN FALSE
    ELSE IF match_type = "all"
         THEN \A j \in 1..Len(keywords) : IsSubstring(keywords[j], dl)
         ELSE \E j \in 1..Len(keywords) : IsSubstring(keywords[j], dl)

check_keywords_match_no_guard(dl, keywords, match_type, exclude) ==
    IF exclude # <<>>
       /\ \E j \in 1..Len(exclude) : IsSubstring(exclude[j], dl)
    THEN FALSE
    ELSE IF match_type = "all"
         THEN \A j \in 1..Len(keywords) : IsSubstring(keywords[j], dl)
         ELSE \E j \in 1..Len(keywords) : IsSubstring(keywords[j], dl)

check_keywords_match_any_case(dl, keywords, match_type, exclude) ==
    IF keywords = <<>> THEN FALSE
    ELSE IF exclude # <<>>
            /\ \E j \in 1..Len(exclude) : IsSubstring(Lower(exclude[j]), dl)
         THEN FALSE
    ELSE IF match_type = "all"
         THEN \A j \in 1..Len(keywords) : IsSubstring(Lower(keywords[j]), dl)
         ELSE \E j \in 1..Len(keywords) : IsSubstring(Lower(keywords[j]), dl)

\* check_keywords_match(details_lower, keywords, match_type, exclude)
check_keywords_match(dl, keywords, match_type, exclude) ==
    IF keywords = <<>> THEN FALSE
    ELSE IF exclude # <<>>
            /\ \E j \in 1..Len(exclude) : IsSubstring(exclude[j], dl)
         THEN FALSE
    ELSE IF match_type = "all"
         THEN \A j \in 1..Len(keywords) : IsSubstring(keywords[j], dl)
         ELSE \E j \in 1..Len(keywords) : IsSubstring(keywords[j], dl)

\* The keyword test of one loop iteration (lines 130-137): TRUE when the
\* loop does not `continue` at line 137.
KeywordsPass(rule, dl) ==
    check_keywords_match(dl,
                         Get(rule, "keywords", <<>>),
                         Get(rule, "match_type", "any"),
                         Get(rule, "exclude", <<>>))

\* Lines 140-149 of one loop iteration, once the keyword test has passed:
\* "return" when the rule's account is returned (lines 143, 149), "continue"
\* when the loop goes on (line 146, or the condition is false and the body
\* ends).
ConditionIgnoresValue(condition, amt) ==
    IF condition # "" /\ EvalCondition(condition, amt).raised
    THEN "continue"
    ELSE "return"

ConditionOutcome(condition, amt) ==
    IF condition # ""
    THEN LET e == EvalCondition(condition, amt)
         IN  IF e.raised THEN "continue"
             ELSE IF e.truthy THEN "return"
             ELSE "continue"
    ELSE "return"

\* Whether one loop iteration returns the rule's account.
RuleReturns(rule, dl, amt) ==
    /\ KeywordsPass(rule, dl)
    /\ ConditionOutcome(Get(rule, "condition", ""), amt) = "return"

\* categorize_transaction(details, amount, config) from rule i on.
RECURSIVE CategorizeFrom(_, _, _, _)
CategorizeFrom(i, dl, amt, cfg) ==
    IF i > Len(cfg["rules"]) THEN cfg["default_account"]
    ELSE IF RuleReturns(cfg["rules"][i], dl, amt) THEN cfg["rules"][i]["account"]
    ELSE CategorizeFrom(i + 1, dl, amt, cfg)

categorize_transaction(d, amt, cfg) == CategorizeFrom(1, Lower(d), amt, cfg)

----------------------------------------------------------------------------
(* Configurations of the model.                                            *)

ExpensesFood == <<"E", "x", "p", "e", "n", "s", "e", "s", ":", "F", "o", "o", "d">>

IncomeSalary == <<"I", "n", "c", "o", "m", "e", ":", "S", "a", "l", "a", "r", "y">>

\* An account that contains "Expenses" without starting with it.
AssetsExpenses == <<"A", "s", "s", "e", "t", "s", ":", "E", "x", "p", "e", "n", "s", "e", "s">>

Accounts == <<ExpensesFood, IncomeSalary, AssetsExpenses>>

\* The rules the configurations of the classifier runs are built from: every
\* combination the code distinguishes occurs (one and two keywords, a
\* two-character keyword, both match types and none, an exclude list, a
\* condition that is true or false by the amount, one that is malformed, one
\* that raises for some amounts, an empty keyword list, upper-case keywords).
RulePool ==
    { [account |-> ExpensesFood, keywords |-> << <<"a">> >>],
      [account |-> IncomeSalary, keywords |-> << <<"a">>, <<"b">> >>,
       match_type |-> "all"],
      [account |-> AssetsExpenses, keywords |-> << <<"a">>, <<"b">> >>,
       match_type |-> "any"],
      [account |-> IncomeSalary, keywords |-> << <<"a", "b">> >>],
      [account |-> AssetsExpenses, keywords |-> << <<"a">> >>,
       exclude |-> << <<"b">> >>, condition |-> "amount > 1"],
      [account |-> IncomeSalary, keywords |-> << <<"b">> >>,
       exclude |-> << <<"A">> >>],
      [account |-> ExpensesFood, keywords |-> << <<"a">> >>,
       condition |-> "amount <= 1"],
      [account |-> IncomeSalary, keywords |-> << <<"b">> >>,
       condition |-> "1 / amount > 0"],
      [account |-> AssetsExpenses, keywords |-> << <<"a">> >>,
       condition |-> "amount >"],
      [account |-> ExpensesFood, keywords |-> <<>>, match_type |-> "all"],
      [account |-> IncomeSalary, keywords |-> << <<"A">>, <<"b">> >>,
       match_type |-> "all", exclude |-> <<>>, condition |-> ""] }

\* The validated configurations the classifier is run with.
ClassifyConfigs ==
    { [accounts |-> Accounts, rules |-> rs, default_account |-> d] :
        rs \in SeqsUpTo(RulePool, MaxRules),
        d \in {ExpensesFood, IncomeSalary} }

\* The characters of the details given to the classifier.
DetailChars == {"a", "b", "A"}

\* The amounts given to the classifier, in cents.
ClassifyAmounts == {0, 20000}

----------------------------------------------------------------------------
(* One call of categorize_transaction, one loop iteration per step.        *)

NoAccount == <<>>

ClassifyIdle ==
    /\ cpc = "off"
    /\ details = <<>>
    /\ amount = 0
    /\ details_lower = <<>>
    /\ rule_i = 0
    /\ evaluated = {}
    /\ result = NoAccount
    /\ returned_by = 0

LedgerIdle ==
    /\ pc = "off"
    /\ input_exists = FALSE
    /\ rows = <<>>
    /\ start_date = <<>>
    /\ end_date = <<>>
    /\ row_i = 0
    /\ transactions_by_date = <<>>
    /\ out_opened = FALSE
    /\ ledger_file = <<>>
    /\ stdout = <<>>
    /\ exit_code = -1

SmsIdle ==
    /\ spc = "off"
    /\ sms_list = <<>>
    /\ sms_i = 0
    /\ all_transactions = <<>>

PdfIdle ==
    /\ xpc = "off"
    /\ table = <<>>
    /\ table_i = 0
    /\ transactions = <<>>

ExtractIdle == SmsIdle /\ PdfIdle

InitClassify ==
    /\ config \in ClassifyConfigs
    /\ cpc = "call"
    /\ details \in SeqsUpTo(DetailChars, MaxDetailsLen)
    /\ amount \in ClassifyAmounts
    /\ details_lower = <<>>
    /\ rule_i = 0
    /\ evaluated = {}
    /\ result = NoAccount
    /\ returned_by = 0
    /\ LedgerIdle
    /\ ExtractIdle

CategorizeEnterSkipsFirst ==
    /\ cpc = "call"
    /\ details_lower' = Lower(details)
    /\ rule_i' = 2
    /\ cpc' = "loop"
    /\ UNCHANGED <<config, details, amount, evaluated, result, returned_by,
                   ledger_vars, extract_vars>>

\* Line 126: details_lower = details.lower(), and the loop starts.
CategorizeEnter ==
    /\ cpc = "call"
    /\ details_lower' = Lower(details)
    /\ rule_i' = 1
    /\ cpc' = "loop"
    /\ UNCHANGED <<config, details, amount, evaluated, result, returned_by,
                   ledger_vars, extract_vars>>

\* Lines 129-149: one iteration of the loop over config["rules"].
CheckRule ==
    /\ cpc = "loop"
    /\ rule_i <= Len(config["rules"])
    /\ LET rule == config["rules"][rule_i]
           keywords == Get(rule, "keywords", <<>>)
           exclude == Get(rule, "exclude", <<>>)
           condition == Get(rule, "condition", "")
           match_type == Get(rule, "match_type", "any")
       IN  IF ~check_keywords_match(details_lower, keywords, match_type, exclude)
           THEN \* line 137: continue
                /\ rule_i' = rule_i + 1
                /\ UNCHANGED <<cpc, evaluated, result, returned_by>>
           ELSE /\ evaluated' = IF condition # ""
                                THEN evaluated \cup {rule_i}   \* line 142
                                ELSE evaluated
                /\ IF ConditionOutcome(condition, amount) = "return"
                   THEN \* lines 143, 149
                        /\ result' = rule["account"]
                        /\ returned_by' = rule_i
                        /\ cpc' = "returned"
                        /\ UNCHANGED rule_i
                   ELSE \* line 146, or the condition is false
                        /\ rule_i' = rule_i + 1
                        /\ UNCHANGED <<cpc, result, returned_by>>
    /\ UNCHANGED <<config, details, amount, details_lower, ledger_vars,
                   extract_vars>>

ReturnFirstAccount ==
    /\ cpc = "loop"
    /\ rule_i > Len(config["rules"])
    /\ result' = config["accounts"][1]
    /\ returned_by' = 0
    /\ cpc' = "returned"
    /\ UNCHANGED <<config, details, amount, details_lower, rule_i, evaluated,
                   ledger_vars, extract_vars>>

\* Line 152: the loop is exhausted.
ReturnDefault ==
    /\ cpc = "loop"
    /\ rule_i > Len(config["rules"])
    /\ result' = config["default_account"]
    /\ returned_by' = 0
    /\ cpc' = "returned"
    /\ UNCHANGED <<config, details, amount, details_lower, rule_i, evaluated,
                   ledger_vars, extract_vars>>

NextClassify == CategorizeEnter \/ CheckRule \/ ReturnDefault

SpecClassify == InitClassify /\ [][NextClassify]_vars

----------------------------------------------------------------------------
(* What the claims about the classifier speak of, stated on the arguments  *)
(* of the call and the rule list, not on the loop.                         *)

Returned == cpc = "returned"

TheRules == config["rules"]

\* Some exclude keyword of rule i is a substring of the lower-cased details.
ExcludeHits(i) ==
    /\ "exclude" \in DOMAIN TheRules[i]
    /\ \E j \in 1..Len(TheRules[i]["exclude"]) :
          IsSubstring(TheRules[i]["exclude"][j], Lower(details))

\* The keywords of rule i that are substrings of the lower-cased details.
KeywordsFound(i) ==
    {j \in 1..Len(TheRules[i]["keywords"]) :
        IsSubstring(TheRules[i]["keywords"][j], Lower(details))}

IsAllRule(i) ==
    "match_type" \in DOMAIN TheRules[i] /\ TheRules[i]["match_type"] = "all"

\* The keyword test of rule i: a non-empty keyword list of which every
\* keyword ("all") or at least one keyword ("any", or no match_type) is found.
KeywordTest(i) ==
    /\ Len(TheRules[i]["keywords"]) > 0
    /\ IF IsAllRule(i)
       THEN Cardinality(KeywordsFound(i)) = Len(TheRules[i]["keywords"])
       ELSE Cardinality(KeywordsFound(i)) >= 1

ConditionPresent(i) ==
    "condition" \in DOMAIN TheRules[i] /\ TheRules[i]["condition"] # ""

\* The condition of rule i raises, or evaluates to a false value.
ConditionFails(i) ==
    /\ ConditionPresent(i)
    /\ \/ EvalCondition(TheRules[i]["condition"], amount).raised
       \/ ~EvalCondition(TheRules[i]["condition"], amount).truthy

\* Rule i matches the call's details and amount.
Matches(i) == KeywordTest(i) /\ ~ExcludeHits(i) /\ ~ConditionFails(i)

Matching == {i \in 1..Len(TheRules) : Matches(i)}

FirstMatching == CHOOSE i \in Matching : \A j \in Matching : i <= j

\* The step about to be taken is the loop iteration for rule rule_i.
AtRule == cpc = "loop" /\ rule_i <= Len(TheRules)

\* That iteration went on to the next rule without returning and without
\* evaluating a condition.
SkippedUnevaluated ==
    /\ rule_i' = rule_i + 1
    /\ cpc' = "loop"
    /\ evaluated' = evaluated
    /\ result' = NoAccount

\* That iteration passed the keyword test (it did not `continue` at line 137).
PassedKeywordTest == cpc' = "returned" \/ rule_i \in evaluated'

----------------------------------------------------------------------------
(* C1. First match wins: the call returns the account of the earliest rule *)
(* (in declared order) whose keyword test succeeds, whose exclude list     *)
(* does not hit and whose condition is absent or evaluates true; a later   *)
(* rule that would also match never overrides it.                          *)
C1_FirstMatchWins ==
    (Returned /\ Matching # {}) =>
        /\ returned_by = FirstMatching
        /\ result = TheRules[FirstMatching]["account"]

\* Two rules with different accounts both match, and the call has returned.
C1_Witness ==
    /\ Returned
    /\ \E i, j \in Matching :
          i < j /\ TheRules[i]["account"] # TheRules[j]["account"]

(* C2. Keyword matching follows match_type: for a rule whose keyword test  *)
(* is reached (a non-empty keyword list, no exclude hit), an "all" rule    *)
(* passes only if every keyword is a substring of the lower-cased details, *)
(* and an "any" rule (also one without match_type) passes if and only if   *)
(* at least one keyword is.                                                *)
C2_MatchType ==
    [][ (AtRule /\ ~ExcludeHits(rule_i)) =>
          IF IsAllRule(rule_i)
          THEN PassedKeywordTest =>
                 (\A j \in 1..Len(TheRules[rule_i]["keywords"]) :
                    j \in KeywordsFound(rule_i))
          ELSE PassedKeywordTest <=> (KeywordsFound(rule_i) # {}) ]_vars

\* The loop has gone past an "all" rule of two keywords of which exactly one
\* is in the details, and a later "any" rule with the same keywords returned.
C2_Witness ==
    /\ Returned
    /\ \E i, j \in 1..Len(TheRules) :
          /\ i < j
          /\ returned_by = j
          /\ IsAllRule(i) /\ ~IsAllRule(j)
          /\ TheRules[i]["keywords"] = TheRules[j]["keywords"]
          /\ Len(TheRules[i]["keywords"]) = 2
          /\ Cardinality(KeywordsFound(i)) = 1

(* C3. Exclude precedence: whenever an exclude keyword of a rule is a      *)
(* substring of the lower-cased details, the loop iteration for that rule  *)
(* goes on to the next rule without returning, whatever the rule's         *)
(* keywords, match_type and condition, and the condition is not evaluated. *)
C3_ExcludePrecedence ==
    [][ (AtRule /\ ExcludeHits(rule_i)) => SkippedUnevaluated ]_vars

\* The loop has gone past a rule whose exclude list hits while its keywords
\* are found and its condition would be true.
C3_Witness ==
    \E i \in 1..Len(TheRules) :
        /\ i < rule_i
        /\ ExcludeHits(i)
        /\ KeywordTest(i)
        /\ ConditionPresent(i) /\ ~ConditionFails(i)
        /\ i \notin evaluated

(* C4 as stated: the call returns exactly config["default_account"] if and *)
(* only if no rule matches.                                                *)
C4_DefaultIffNoMatch ==
    Returned => (result = config["default_account"] <=> Matching = {})

(* C4, amended: the call returns through the fallback of line 152 if and   *)
(* only if no rule matches, and its result is config["default_account"]    *)
(* if and only if no rule matches or the first matching rule itself names  *)
(* default_account as its account.                                         *)
C4_DefaultFallback ==
    Returned =>
        /\ returned_by = 0 <=> Matching = {}
        /\ result = config["default_account"] <=>
              \/ Matching = {}
              \/ TheRules[FirstMatching]["account"] = config["default_account"]

\* No rule of a non-empty rule list matches; the first rule is skipped for
\* its condition and names another account than the default one.
C4_Witness ==
    /\ Returned
    /\ Matching = {}
    /\ Len(TheRules) > 0
    /\ ConditionFails(1) /\ 1 \in evaluated
    /\ TheRules[1]["account"] # config["default_account"]
    /\ config["default_account"] # config["accounts"][1]

(* C5. A rule whose keywords match but whose condition raises or is false  *)
(* is a non-match: its loop iteration goes on to the next rule without     *)
(* returning, so the call ends with the first matching rule after it, or   *)
(* with the default account when there is none.                            *)
C5_FailedConditionContinues ==
    /\ [][ (AtRule /\ KeywordTest(rule_i) /\ ~ExcludeHits(rule_i)
              /\ ConditionFails(rule_i)) =>
             /\ rule_i' = rule_i + 1
             /\ cpc' = "loop"
             /\ result' = NoAccount ]_vars
    /\ [](Returned =>
            \A i \in 1..Len(TheRules) :
               (KeywordTest(i) /\ ~ExcludeHits(i) /\ ConditionFails(i)) =>
                  /\ returned_by # i
                  /\ returned_by = 0 =>
                        \A j \in (i + 1)..Len(TheRules) : ~Matches(j))

\* A rule's condition raised, another one's was false, and a later rule
\* returned its account.
C5_Witness ==
    /\ Returned
    /\ \E i, j \in 1..Len(TheRules) :
          /\ i < j
          /\ returned_by = j
          /\ KeywordTest(i) /\ ~ExcludeHits(i)
          /\ ConditionPresent(i)
          /\ EvalCondition(TheRules[i]["condition"], amount).raised
          /\ i \in evaluated

----------------------------------------------------------------------------
(* Numbers: float(s) on the decimal strings of the input file and the      *)
(* "{x:.2f}" formatting of the ledger. A number is held in cents; the      *)
(* decimal strings of the model have at most two decimals.                 *)

Digits == <<"0", "1", "2", "3", "4", "5", "6", "7", "8", "9">>

IsDigit(c) == \E i \in 1..10 : Digits[i] = c

DigitVal(c) == (CHOOSE i \in 1..10 : Digits[i] = c) - 1

\* int(s) for a string of digits (0 for the empty string).
RECURSIVE DigitsVal(_)
DigitsVal(s) ==
    IF s = <<>> THEN 0
    ELSE DigitsVal(SubSeq(s, 1, Len(s) - 1)) * 10 + DigitVal(s[Len(s)])

\* The digits of s without its sign.
Unsigned(s) == IF s # <<>> /\ Head(s) = "-" THEN Tail(s) ELSE s

\* float(s) succeeds: an optional sign, digits with at most one decimal
\* point, at least one digit. Anything else raises ValueError.
FloatOk(s) ==
    LET u == Unsigned(s)
    IN  /\ \A i \in 1..Len(u) : IsDigit(u[i]) \/ u[i] = "."
        /\ Cardinality({i \in 1..Len(u) : u[i] = "."}) <= 1
        /\ \E i \in 1..Len(u) : IsDigit(u[i])

\* float(s) in cents, for a string float() accepts.
FloatCents(s) ==
    LET u == IF \E i \in 1..Len(Unsigned(s)) : Unsigned(s)[i] = "."
             THEN Unsigned(s)
             ELSE Unsigned(s) \o <<".">>
        dot == CHOOSE i \in 1..Len(u) : u[i] = "."
        whole == SubSeq(u, 1, dot - 1)
        frac == SubSeq(u \o <<"0", "0">>, dot + 1, dot + 2)
        mag == DigitsVal(whole) * 100 + DigitsVal(frac)
    IN  IF s # <<>> /\ Head(s) = "-" THEN 0 - mag ELSE mag

\* str(n) for a natural number.
RECURSIVE NatStr(_)
NatStr(n) ==
    IF n < 10 THEN <<Digits[n + 1]>>
    ELSE NatStr(n \div 10) \o <<Digits[(n % 10) + 1]>>

\* "{x:.2f}" for x >= 0 given in cents.
Magnitude2f(c) ==
    NatStr(c \div 100) \o <<".", Digits[((c % 100) \div 10) + 1],
                            Digits[(c % 10) + 1]>>

\* "{x:.2f}" for the float x given in cents (positive zero when x = 0).
Fixed2f(c) == IF c < 0 THEN <<"-">> \o Magnitude2f(0 - c) ELSE Magnitude2f(c)

\* "{-x:.2f}": the negation of the float 0.0 is -0.0, which prints "-0.00".
NegFixed2f(c) == IF c >= 0 THEN <<"-">> \o Magnitude2f(c) ELSE Magnitude2f(0 - c)

----------------------------------------------------------------------------
(* The ledger stage: parse_mpesa_to_ledger_with_balance and ledgerfy_main. *)

Completed == <<"c", "o", "m", "p", "l", "e", "t", "e", "d">>

Expenses == <<"E", "x", "p", "e", "n", "s", "e", "s">>

RowColumns ==
    {"Completion Time", "Details", "Transaction Status", "Paid In",
     "Withdrawn", "Balance"}

\* Lines 180-184: the date passes the range test (neither `continue`).
InDateRangeExclusiveEnd(transaction_date, start, end) ==
    /\ ~StrLess(transaction_date, start)
    /\ ~(end # <<>> /\ ~StrLess(transaction_date, end))

InDateRange(transaction_date, start, end) ==
    /\ ~StrLess(transaction_date, start)
    /\ ~(end # <<>> /\ StrLess(end, transaction_date))

\* Line 197: the status passes (no `continue`).
StatusIsCompletedCaseSensitive(status) == status = Completed

StatusIsCompleted(status) == Lower(status) = Completed

\* Lines 193-195: float(s) if s else 0.0
FloatOrZero(s) == IF s # <<>> THEN FloatCents(s) ELSE 0

\* Lines 201-206: the amount of the posting.
DerivedAmount(paid_in, withdrawn) == IF paid_in > 0 THEN paid_in ELSE withdrawn

RowOutcomeCached(row, start, end, cfg) ==
    LET none == [kind |-> "skip", date |-> <<>>, txn |-> <<>>]
        seen == UNION { {transactions_by_date[d][k] :
                            k \in 1..Len(transactions_by_date[d])} :
                        d \in DOMAIN transactions_by_date }
    IN
    IF "Completion Time" \notin DOMAIN row
    THEN [none EXCEPT !.kind = "KeyError"]
    ELSE
    LET completion_time == row["Completion Time"]
        transaction_date == SplitFirst(completion_time)
    IN
    IF ~InDateRange(transaction_date, start, end) THEN none
    ELSE IF ~(RowColumns \subseteq DOMAIN row)
    THEN [none EXCEPT !.kind = "KeyError"]
    ELSE IF \E col \in {"Paid In", "Withdrawn", "Balance"} :
               row[col] # <<>> /\ ~FloatOk(row[col])
    THEN [none EXCEPT !.kind = "ValueError"]
    ELSE IF ~StatusIsCompleted(row["Transaction Status"]) THEN none
    ELSE
    LET paid_in == FloatOrZero(row["Paid In"])
        withdrawn == FloatOrZero(row["Withdrawn"])
        balance == FloatOrZero(row["Balance"])
        amt == DerivedAmount(paid_in, withdrawn)
        same == {t \in seen : t.details = row["Details"]}
    IN  [kind |-> "accept",
         date |-> transaction_date,
         txn |-> [account |-> IF same # {}
                              THEN (CHOOSE t \in same : TRUE).account
                              ELSE categorize_transaction(row["Details"], amt, cfg),
                  amount |-> amt,
                  details |-> row["Details"],
                  balance |-> balance,
                  timestamp |-> completion_time]]

\* Lines 177-216: one iteration of the loop over the input records. kind is
\* "skip" (a `continue`), "accept" (txn is appended to the bucket of date),
\* "KeyError" (a column is missing) or "ValueError" (float() raised).
RowOutcome(row, start, end, cfg) ==
    LET none == [kind |-> "skip", date |-> <<>>, txn |-> <<>>]
    IN
    IF "Completion Time" \notin DOMAIN row
    THEN [none EXCEPT !.kind = "KeyError"]
    ELSE
    LET completion_time == row["Completion Time"]
        transaction_date == SplitFirst(completion_time)
    IN
    IF ~InDateRange(transaction_date, start, end) THEN none
    ELSE IF ~(RowColumns \subseteq DOMAIN row)
    THEN [none EXCEPT !.kind = "KeyError"]
    ELSE IF \E col \in {"Paid In", "Withdrawn", "Balance"} :
               row[col] # <<>> /\ ~FloatOk(row[col])
    THEN [none EXCEPT !.kind = "ValueError"]
    ELSE IF ~StatusIsCompleted(row["Transaction Status"]) THEN none
    ELSE
    LET paid_in == FloatOrZero(row["Paid In"])
        withdrawn == FloatOrZero(row["Withdrawn"])
        balance == FloatOrZero(row["Balance"])
        amt == DerivedAmount(paid_in, withdrawn)
    IN  [kind |-> "accept",
         date |-> transaction_date,
         txn |-> [account |-> categorize_transaction(row["Details"], amt, cfg),
                  amount |-> amt,
                  details |-> row["Details"],
                  balance |-> balance,
                  timestamp |-> completion_time]]

AppendToReplaces(by_date, date, txn) == (date :> <<txn>>) @@ by_date

\* transactions_by_date[date].append(txn) on the defaultdict(list).
AppendTo(by_date, date, txn) ==
    IF date \in DOMAIN by_date
    THEN [by_date EXCEPT ![date] = Append(@, txn)]
    ELSE (date :> <<txn>>) @@ by_date

\* sorted(keys): the strings of S in ascending order.
RECURSIVE SortedStrings(_)
SortedStrings(S) ==
    IF S = {} THEN <<>>
    ELSE LET least == CHOOSE x \in S : \A y \in S : ~StrLess(y, x)
         IN  <<least>> \o SortedStrings(S \ {least})

\* One step of a stable sort by timestamp: x goes behind every element whose
\* timestamp is not greater than its own.
RECURSIVE InsertByTimestamp(_, _)
InsertByTimestamp(x, sorted) ==
    IF sorted = <<>> THEN <<x>>
    ELSE IF StrLess(x["timestamp"], Head(sorted)["timestamp"])
    THEN <<x>> \o sorted
    ELSE <<Head(sorted)>> \o InsertByTimestamp(x, Tail(sorted))

RECURSIVE SortPrefix(_, _)
SortPrefix(txns, n) ==
    IF n = 0 THEN <<>>
    ELSE InsertByTimestamp(txns[n], SortPrefix(txns, n - 1))

Unsorted(txns) == txns

\* Lines 231-233: sorted(transactions_by_date[date], key=timestamp), stable.
SortedByTimestamp(txns) == SortPrefix(txns, Len(txns))

AlwaysPlain(account, amt) == Fixed2f(amt)

\* Lines 241-245: the signed amount of a posting.
FormattedAmount(account, amt) ==
    IF StartsWith(account, Expenses) THEN Fixed2f(amt) ELSE NegFixed2f(amt)

FirstOfDay(i, n) == i = 1

\* Line 251: the posting that carries the balance (i counts from 1 here).
IsLastOfDay(i, n) == i = n

\* The lines of the output file. The fields are those the f-strings
\* interpolate; the fixed text around them and the column widths (account
\* left-justified to 45, amount right-justified to 15) are not held.
DateLine(date) ==
    [kind |-> "date", date |-> date, account |-> <<>>, amount |-> <<>>,
     details |-> <<>>, bal |-> <<>>]

AssetLine ==
    [kind |-> "asset", date |-> <<>>, account |-> <<>>, amount |-> <<>>,
     details |-> <<>>, bal |-> <<>>]

BlankLine ==
    [kind |-> "blank", date |-> <<>>, account |-> <<>>, amount |-> <<>>,
     details |-> <<>>, bal |-> <<>>]

\* Lines 252-258: bal is <<>> without the assertion and <<text>> with
\* " BAL KES text".
PostingLine(txn, last) ==
    [kind |-> "posting", date |-> <<>>,
     account |-> txn["account"],
     amount |-> FormattedAmount(txn["account"], txn["amount"]),
     details |-> txn["details"],
     bal |-> IF last THEN <<Fixed2f(txn["balance"])>> ELSE <<>>]

\* Lines 227-260: the lines of one date block.
DateBlock(date, txns) ==
    LET daily == SortedByTimestamp(txns)
    IN  <<DateLine(date), AssetLine>>
        \o [i \in 1..Len(daily) |-> PostingLine(daily[i], IsLastOfDay(i, Len(daily)))]
        \o <<BlankLine>>

\* Lines 226-260: the blocks of dates[k..], in that order.
RECURSIVE BlocksFrom(_, _, _)
BlocksFrom(dates, k, by_date) ==
    IF k > Len(dates) THEN <<>>
    ELSE DateBlock(dates[k], by_date[dates[k]]) \o BlocksFrom(dates, k + 1, by_date)

LedgerText(by_date) == BlocksFrom(SortedStrings(DOMAIN by_date), 1, by_date)

\* sum(len(transactions) for ...) at lines 263-265.
RECURSIVE TotalTransactions(_, _)
TotalTransactions(dates, by_date) ==
    IF dates = <<>> THEN 0
    ELSE Len(by_date[Head(dates)]) + TotalTransactions(Tail(dates), by_date)

Message(msg, n, text) == [msg |-> msg, n |-> n, text |-> text]

\* A JSON value that is not a list (an object, a string, a number).
NotAList == (0 :> 0)

\* isinstance(v, list)
IsList(v) == 0 \notin DOMAIN v

\* x in list
InList(x, list) == \E i \in 1..Len(list) : list[i] = x

RuleErrorIgnoresMatchType(rule, accounts) ==
    IF "account" \notin DOMAIN rule THEN "missing account"
    ELSE IF ~InList(rule["account"], accounts) THEN "account not in accounts"
    ELSE IF "keywords" \notin DOMAIN rule THEN "missing keywords"
    ELSE IF ~IsList(rule["keywords"]) THEN "keywords must be a list"
    ELSE ""

RuleErrorIgnoresAccount(rule, accounts) ==
    IF "account" \notin DOMAIN rule THEN "missing account"
    ELSE IF "keywords" \notin DOMAIN rule THEN "missing keywords"
    ELSE IF ~IsList(rule["keywords"]) THEN "keywords must be a list"
    ELSE IF "match_type" \in DOMAIN rule /\ rule["match_type"] \notin {"any", "all"}
    THEN "invalid match_type"
    ELSE ""

\* Lines 63-86: the error of one rule, "" when it has none.
RuleError(rule, accounts) ==
    IF "account" \notin DOMAIN rule THEN "missing account"
    ELSE IF ~InList(rule["account"], accounts) THEN "account not in accounts"
    ELSE IF "keywords" \notin DOMAIN rule THEN "missing keywords"
    ELSE IF ~IsList(rule["keywords"]) THEN "keywords must be a list"
    ELSE IF "match_type" \in DOMAIN rule /\ rule["match_type"] \notin {"any", "all"}
    THEN "invalid match_type"
    ELSE ""

\* validate_config(config): the ValueError it raises, "" when it returns.
validate_config(cfg) ==
    IF ~({"accounts", "rules", "default_account"} \subseteq DOMAIN cfg)
    THEN "missing required field"
    ELSE IF ~IsList(cfg["accounts"]) THEN "'accounts' must be a list"
    ELSE IF ~IsList(cfg["rules"]) THEN "'rules' must be a list"
    ELSE IF ~InList(cfg["default_account"], cfg["accounts"])
    THEN "default_account not in accounts"
    ELSE IF \E i \in 1..Len(cfg["rules"]) :
               RuleError(cfg["rules"][i], cfg["accounts"]) # ""
    THEN LET first == CHOOSE i \in 1..Len(cfg["rules"]) :
                        /\ RuleError(cfg["rules"][i], cfg["accounts"]) # ""
                        /\ \A j \in 1..(i - 1) :
                             RuleError(cfg["rules"][j], cfg["accounts"]) = ""
         IN  RuleError(cfg["rules"][first], cfg["accounts"])
    ELSE ""

----------------------------------------------------------------------------
(* Inputs of the ledger runs of the model.                                 *)

\* Dates and times as the input file writes them (zero-padded, fixed
\* width); the year, the same in every record, is left out.
Date1 == <<"0", "3", "-", "0", "9">>

Date2 == <<"0", "3", "-", "1", "0">>

Time1 == <<"0", "9", ":", "0", "0">>

Time2 == <<"1", "4", ":", "3", "0">>

\* Two records' times on the later date, one on the earlier.
CompletionTimes ==
    { Date1 \o <<" ">> \o Time1,
      Date2 \o <<" ">> \o Time1,
      Date2 \o <<" ">> \o Time2 }

\* Details, amounts, balance and status of the records: an inbound payment
\* that the rules put under an Expenses account, an inbound one with
\* upper-case details and status, an outbound one with "0" paid in and no
\* balance that no rule matches, and a failed one.
RowBodies ==
    { [Details |-> <<"a">>, paid |-> <<"7">>, withdrawn |-> <<>>,
       Balance |-> <<"2", "5", ".", "2", "5">>, status |-> Completed],
      [Details |-> <<"B">>, paid |-> <<"5", "0">>, withdrawn |-> <<>>,
       Balance |-> <<"1", "8", ".", "2", "5">>,
       status |-> <<"C", "O", "M", "P", "L", "E", "T", "E", "D">>],
      [Details |-> <<"x">>, paid |-> <<"0">>, withdrawn |-> <<"4", ".", "5">>,
       Balance |-> <<>>, status |-> <<"C", "o", "m", "p", "l", "e", "t", "e", "d">>],
      [Details |-> <<"a">>, paid |-> <<>>, withdrawn |-> <<"9">>,
       Balance |-> <<"9", "9">>, status |-> <<"F", "a", "i", "l", "e", "d">>] }

MakeRow(completion_time, body) ==
    ("Completion Time" :> completion_time)
    @@ ("Details" :> body.Details)
    @@ ("Transaction Status" :> body.status)
    @@ ("Paid In" :> body.paid)
    @@ ("Withdrawn" :> body.withdrawn)
    @@ ("Balance" :> body.Balance)

\* The records an input file of the model is made of.
RowPool == {MakeRow(ct, b) : ct \in CompletionTimes, b \in RowBodies}

\* The configuration of the ledger runs.
LedgerConfigs ==
    { [accounts |-> Accounts,
       rules |-> << [account |-> ExpensesFood, keywords |-> << <<"a">> >>],
                    [account |-> IncomeSalary, keywords |-> << <<"b">> >>] >>,
       default_account |-> AssetsExpenses] }

----------------------------------------------------------------------------
(* One run of ledgerfy_main.                                               *)

InitLedger ==
    /\ config \in LedgerConfigs
    /\ pc = "main"
    /\ input_exists \in BOOLEAN
    /\ rows \in SeqsUpTo(RowPool, MaxRows)
    /\ start_date \in {Date1, Date2}
    /\ end_date \in {<<>>, Date1}
    /\ ~input_exists => (rows = <<>> /\ start_date = Date1 /\ end_date = <<>>)
    /\ row_i = 0
    /\ transactions_by_date = <<>>
    /\ out_opened = FALSE
    /\ ledger_file = <<>>
    /\ stdout = <<>>
    /\ exit_code = -1
    /\ ClassifyIdle
    /\ ExtractIdle

\* Lines 286-291 of ledgerfy_main.
MainStart ==
    /\ pc = "main"
    /\ IF input_exists
       THEN /\ pc' = "load_config"
            /\ UNCHANGED <<stdout, exit_code>>
       ELSE /\ stdout' = Append(stdout, Message("Error: Input file not found", <<>>, <<>>))
            /\ exit_code' = 1
            /\ pc' = "done"
    /\ UNCHANGED <<config, classify_vars, extract_vars, input_exists, rows,
                   start_date, end_date, row_i, transactions_by_date, out_opened,
                   ledger_file>>

\* Line 162: load_config, which validates; a ValueError ends the run at
\* lines 301-303.
LoadConfig ==
    /\ pc = "load_config"
    /\ IF validate_config(config) = ""
       THEN /\ stdout' = Append(stdout,
                           Message("Configuration validated",
                                   <<Len(config["accounts"]), Len(config["rules"])>>,
                                   <<>>))
            /\ pc' = "read_input"
            /\ UNCHANGED exit_code
       ELSE /\ stdout' = Append(stdout, Message("Configuration error", <<>>, <<>>))
            /\ exit_code' = 1
            /\ pc' = "done"
    /\ UNCHANGED <<config, classify_vars, extract_vars, input_exists, rows,
                   start_date, end_date, row_i, transactions_by_date, out_opened,
                   ledger_file>>

ReadInputOpensOutput ==
    /\ pc = "read_input"
    /\ pc' = "rows"
    /\ row_i' = 0
    /\ transactions_by_date' = <<>>
    /\ out_opened' = TRUE
    /\ ledger_file' = <<>>
    /\ UNCHANGED <<config, classify_vars, extract_vars, input_exists, rows,
                   start_date, end_date, stdout, exit_code>>

\* Lines 164-175: the input file is read into `transactions`.
ReadInput ==
    /\ pc = "read_input"
    /\ pc' = "rows"
    /\ row_i' = 0
    /\ transactions_by_date' = <<>>
    /\ UNCHANGED <<config, classify_vars, extract_vars, input_exists, rows,
                   start_date, end_date, out_opened, ledger_file, stdout, exit_code>>

\* Lines 176-216: one iteration of the loop over the records. A ValueError
\* of float() is caught at lines 301-303; a KeyError is caught nowhere.
ProcessRow ==
    /\ pc = "rows"
    /\ row_i < Len(rows)
    /\ LET o == RowOutcome(rows[row_i + 1], start_date, end_date, config)
       IN  CASE o.kind = "accept" ->
                   /\ transactions_by_date' =
                        AppendTo(transactions_by_date, o.date, o.txn)
                   /\ row_i' = row_i + 1
                   /\ UNCHANGED <<pc, stdout, exit_code>>
             [] o.kind = "skip" ->
                   /\ row_i' = row_i + 1
                   /\ UNCHANGED <<pc, transactions_by_date, stdout, exit_code>>
             [] o.kind = "ValueError" ->
                   /\ stdout' = Append(stdout, Message("Configuration error", <<>>, <<>>))
                   /\ exit_code' = 1
                   /\ pc' = "done"
                   /\ UNCHANGED <<row_i, transactions_by_date>>
             [] OTHER ->
                   /\ exit_code' = 1
                   /\ pc' = "crashed"
                   /\ UNCHANGED <<row_i, transactions_by_date, stdout>>
    /\ UNCHANGED <<config, classify_vars, extract_vars, input_exists, rows,
                   start_date, end_date, out_opened, ledger_file>>

FinishEmptySilently ==
    /\ pc = "rows"
    /\ row_i = Len(rows)
    /\ DOMAIN transactions_by_date = {}
    /\ stdout' = Append(stdout, Message("Generated ledger file", <<>>, <<>>))
    /\ exit_code' = 0
    /\ pc' = "done"
    /\ UNCHANGED <<config, classify_vars, extract_vars, input_exists, rows,
                   start_date, end_date, row_i, transactions_by_date, out_opened,
                   ledger_file>>

\* Lines 218-222, then line 305: nothing was accepted.
FinishEmpty ==
    /\ pc = "rows"
    /\ row_i = Len(rows)
    /\ DOMAIN transactions_by_date = {}
    /\ stdout' = Append(stdout,
                        Message("No transactions found in the date range", <<>>,
                                <<start_date, end_date>>))
    /\ exit_code' = 0
    /\ pc' = "done"
    /\ UNCHANGED <<config, classify_vars, extract_vars, input_exists, rows,
                   start_date, end_date, row_i, transactions_by_date, out_opened,
                   ledger_file>>

\* Lines 225-272, then line 305: the ledger is written and the summary
\* printed.
WriteLedger ==
    /\ pc = "rows"
    /\ row_i = Len(rows)
    /\ DOMAIN transactions_by_date # {}
    /\ out_opened' = TRUE
    /\ ledger_file' = LedgerText(transactions_by_date)
    /\ LET dates == SortedStrings(DOMAIN transactions_by_date)
       IN  stdout' = stdout \o
             << Message("Generated ledger file", <<>>, <<>>),
                Message("Processed transactions",
                        <<TotalTransactions(dates, transactions_by_date)>>,
                        <<start_date,
                          IF end_date # <<>> THEN end_date ELSE dates[Len(dates)]>>) >>
    /\ exit_code' = 0
    /\ pc' = "done"
    /\ UNCHANGED <<config, classify_vars, extract_vars, input_exists, rows,
                   start_date, end_date, row_i, transactions_by_date>>

Next ==
    \/ MainStart
    \/ LoadConfig
    \/ ReadInput
    \/ ProcessRow
    \/ FinishEmpty
    \/ WriteLedger

Init == InitLedger

Spec == Init /\ [][Next]_vars

----------------------------------------------------------------------------
(* What the claims about the ledger speak of, stated on the input records  *)
(* and on the lines of the output file.                                    *)

\* The run ended normally, having read the input.
RunCompleted == pc = "done" /\ exit_code = 0

\* The number a date or a timestamp denotes: its digits, read as one
\* decimal number (dates and times are zero-padded and of fixed width).
DigitsOf(s) == SelectSeq(s, IsDigit)

TimeValue(s) == DigitsVal(DigitsOf(s))

\* The date part of record k: its Completion Time up to the first space.
RowDate(k) ==
    LET ct == rows[k]["Completion Time"]
        sp == CHOOSE i \in 1..Len(ct) :
                 ct[i] = " " /\ \A j \in 1..(i - 1) : ct[j] # " "
    IN  SubSeq(ct, 1, sp - 1)

RowTime(k) == TimeValue(rows[k]["Completion Time"])

\* Record k is completed (case-insensitively) and dated within
\* [start_date, end_date], both inclusive, no upper end without end_date.
Accepted(k) ==
    /\ Lower(rows[k]["Transaction Status"]) = Lower(<<"C", "O", "M", "P", "L", "E", "T", "E", "D">>)
    /\ TimeValue(start_date) <= TimeValue(RowDate(k))
    /\ end_date # <<>> => TimeValue(RowDate(k)) <= TimeValue(end_date)

AcceptedRows == {k \in 1..Len(rows) : Accepted(k)}

AcceptedOn(date) == {k \in AcceptedRows : RowDate(k) = date}

AcceptedDates == {RowDate(k) : k \in AcceptedRows}

\* The amount of record k: paid_in if paid_in > 0, otherwise withdrawn.
RowAmount(k) ==
    IF FloatOrZero(rows[k]["Paid In"]) > 0
    THEN FloatOrZero(rows[k]["Paid In"])
    ELSE FloatOrZero(rows[k]["Withdrawn"])

\* Record i comes before record j in a date block: earlier Completion Time,
\* or the same one and earlier in the input.
ComesBefore(i, j) == RowTime(i) < RowTime(j) \/ (RowTime(i) = RowTime(j) /\ i < j)

\* The accepted records of a date in the order the claim gives them.
ExpectedOrder(date) ==
    LET S == AcceptedOn(date)
        n == Cardinality(S)
    IN  CHOOSE p \in [1..n -> S] :
          \A a, b \in 1..n : a < b => ComesBefore(p[a], p[b])

\* The lines of the file with the given kind.
LinesOfKind(kind) == {i \in 1..Len(ledger_file) : ledger_file[i]["kind"] = kind}

\* The date block that starts at date line i ends at the next blank line.
BlockEnd(i) ==
    CHOOSE j \in LinesOfKind("blank") :
        j > i /\ \A l \in LinesOfKind("blank") : l > i => j <= l

\* The posting lines of the block that starts at date line i.
BlockPostings(i) == SubSeq(ledger_file, i + 2, BlockEnd(i) - 1)

\* The date line of the block of a date.
BlockOf(date) ==
    CHOOSE i \in LinesOfKind("date") : ledger_file[i]["date"] = date

\* The file is a sequence of blocks: a date line, the asset account line,
\* one or more posting lines, a blank line.
WellFormedFile ==
    /\ \A i \in LinesOfKind("date") :
         /\ i + 1 \in LinesOfKind("asset")
         /\ \E j \in LinesOfKind("blank") : j > i + 2
         /\ \A l \in (i + 2)..(BlockEnd(i) - 1) : l \in LinesOfKind("posting")
    /\ \A i \in 1..Len(ledger_file) :
         ledger_file[i]["kind"] # "date" =>
            i > 1 /\ ledger_file[i - 1]["kind"] # "blank"
    /\ ledger_file # <<>> => ledger_file[Len(ledger_file)]["kind"] = "blank"

\* The posting lines of the date's block are the accepted records of the
\* date in the expected order, one line per record.
BlockFollows(date) ==
    LET ps == BlockPostings(BlockOf(date))
        order == ExpectedOrder(date)
    IN  /\ Len(ps) = Cardinality(AcceptedOn(date))
        /\ \A a \in 1..Len(ps) :
             /\ ps[a]["details"] = rows[order[a]]["Details"]
             /\ FloatCents(ps[a]["amount"]) \in
                  {RowAmount(order[a]), 0 - RowAmount(order[a])}

HasMessage(msg) == \E i \in 1..Len(stdout) : stdout[i]["msg"] = msg

----------------------------------------------------------------------------
(* C6. Ledger filtering: an input record contributes a posting if and only *)
(* if its status is "completed" case-insensitively and its date is within  *)
(* [start_date, end_date], both inclusive (no upper end without end_date): *)
(* the loop iteration for an accepted record appends exactly that record   *)
(* to the bucket of its date, the iteration for any other record (a        *)
(* "Failed" one, whatever its date) appends nothing, and the file written  *)
(* has one posting line per accepted record.                               *)
C6_LedgerFiltering ==
    /\ [][ (pc = "rows" /\ row_i < Len(rows)) =>
             LET k == row_i + 1
                 d == RowDate(k)
             IN  IF Accepted(k)
                 THEN /\ d \in DOMAIN transactions_by_date'
                      /\ LET bucket == transactions_by_date'[d]
                             before == IF d \in DOMAIN transactions_by_date
                                       THEN transactions_by_date[d] ELSE <<>>
                         IN  /\ Len(bucket) = Len(before) + 1
                             /\ SubSeq(bucket, 1, Len(before)) = before
                             /\ bucket[Len(bucket)]["details"] = rows[k]["Details"]
                             /\ bucket[Len(bucket)]["timestamp"] =
                                  rows[k]["Completion Time"]
                      /\ \A e \in DOMAIN transactions_by_date' \ {d} :
                           /\ e \in DOMAIN transactions_by_date
                           /\ transactions_by_date'[e] = transactions_by_date[e]
                 ELSE transactions_by_date' = transactions_by_date ]_vars
    /\ [](RunCompleted =>
            Cardinality(LinesOfKind("posting")) = Cardinality(AcceptedRows))

\* A ledger was written from two records dated on end_date: a "Failed" one,
\* left out, and one with status "COMPLETED", which is its only posting.
C6_Witness ==
    /\ RunCompleted
    /\ Len(rows) = 2
    /\ end_date # <<>>
    /\ RowDate(1) = end_date /\ RowDate(2) = end_date
    /\ rows[1]["Transaction Status"] = <<"F", "a", "i", "l", "e", "d">>
    /\ rows[2]["Transaction Status"] = <<"C", "O", "M", "P", "L", "E", "T", "E", "D">>
    /\ Cardinality(LinesOfKind("posting")) = 1

(* C7. Ledger ordering: the file is a sequence of date blocks, one per     *)
(* distinct date of the accepted records, in strictly ascending date       *)
(* order; in each block the postings are in ascending Completion Time      *)
(* order, and postings with equal Completion Time are in input order.      *)
C7_LedgerOrdering ==
    (RunCompleted /\ out_opened) =>
        /\ WellFormedFile
        /\ {ledger_file[i]["date"] : i \in LinesOfKind("date")} = AcceptedDates
        /\ \A i, j \in LinesOfKind("date") :
             i < j => TimeValue(ledger_file[i]["date"]) < TimeValue(ledger_file[j]["date"])
        /\ \A date \in AcceptedDates : BlockFollows(date)

\* A block of two postings whose records came in the input in descending
\* time order: the sort has reordered them.
C7_Witness ==
    /\ RunCompleted /\ out_opened
    /\ Len(rows) = 2
    /\ AcceptedRows = {1, 2}
    /\ RowDate(1) = RowDate(2)
    /\ RowTime(2) < RowTime(1)
    /\ rows[1]["Details"] # rows[2]["Details"]

(* C8. Closing balance: in every date block exactly one posting line       *)
(* carries the "BAL KES" assertion, it is the final posting line of the    *)
(* block, and its value is the balance of the chronologically last         *)
(* accepted record of that date (of the latest in the input among those    *)
(* with the greatest Completion Time).                                     *)
C8_ClosingBalance ==
    (RunCompleted /\ out_opened) =>
        \A date \in AcceptedDates :
            LET ps == BlockPostings(BlockOf(date))
                order == ExpectedOrder(date)
                n == Len(ps)
            IN  /\ n = Cardinality(AcceptedOn(date))
                /\ \A a \in 1..n : (ps[a]["bal"] # <<>>) <=> (a = n)
                /\ Len(ps[n]["bal"]) = 1
                /\ FloatCents(ps[n]["bal"][1]) =
                     FloatOrZero(rows[order[n]]["Balance"])
                /\ ps[n]["bal"][1] =
                     Magnitude2f(FloatOrZero(rows[order[n]]["Balance"]))

\* A date has two accepted records; the chronologically last one comes
\* first in the input and has the smaller balance.
C8_Witness ==
    /\ RunCompleted /\ out_opened
    /\ Len(rows) = 2
    /\ AcceptedRows = {1, 2}
    /\ RowDate(1) = RowDate(2)
    /\ RowTime(2) < RowTime(1)
    /\ FloatOrZero(rows[1]["Balance"]) < FloatOrZero(rows[2]["Balance"])

(* C9. Amount sign convention: a posting whose account starts with         *)
(* "Expenses" shows the derived amount of its record as it is (450.00 as   *)
(* 450.00, no minus sign), a posting under any other account shows the     *)
(* negated amount (50000.00 as -50000.00).                                 *)
C9_AmountSign ==
    (RunCompleted /\ out_opened) =>
        \A date \in AcceptedDates :
            LET ps == BlockPostings(BlockOf(date))
                order == ExpectedOrder(date)
            IN  \A a \in 1..Len(ps) :
                  LET text == ps[a]["amount"]
                      amt == RowAmount(order[a])
                      expenses == /\ Len(ps[a]["account"]) >= 8
                                  /\ SubSeq(ps[a]["account"], 1, 8) =
                                       <<"E", "x", "p", "e", "n", "s", "e", "s">>
                  IN  /\ a <= Len(order)
                      /\ IF expenses
                         THEN FloatCents(text) = amt /\ (amt >= 0 => Head(text) # "-")
                         ELSE FloatCents(text) = 0 - amt /\ (amt >= 0 => Head(text) = "-")

\* A ledger with an inbound record posted under an Expenses account and an
\* inbound record posted under Income:Salary.
C9_Witness ==
    /\ RunCompleted /\ out_opened
    /\ \E i, j \in LinesOfKind("posting") :
         /\ ledger_file[i]["account"] = ExpensesFood
         /\ ledger_file[i]["amount"] = <<"7", ".", "0", "0">>
         /\ ledger_file[j]["account"] = IncomeSalary
         /\ ledger_file[j]["amount"] = <<"-", "5", "0", ".", "0", "0">>
    /\ \A k \in 1..Len(rows) : FloatOrZero(rows[k]["Paid In"]) > 0

(* C10. Empty result: when no record survives the status/date filtering,   *)
(* the output file is never opened or written, and what the run reports    *)
(* (the message it prints) differs from what a run that wrote a ledger     *)
(* reports.                                                                *)
C10_EmptyResult ==
    /\ AcceptedRows = {} => (~out_opened /\ ledger_file = <<>>)
    /\ (RunCompleted /\ AcceptedRows = {}) =>
         /\ HasMessage("No transactions found in the date range")
         /\ ~HasMessage("Generated ledger file")
    /\ (RunCompleted /\ out_opened) =>
         /\ HasMessage("Generated ledger file")
         /\ ~HasMessage("No transactions found in the date range")

\* A run over two records, none of which survives the filtering, has ended.
C10_Witness ==
    /\ RunCompleted
    /\ Len(rows) = 2
    /\ AcceptedRows = {}
    /\ Lower(rows[1]["Transaction Status"]) = Completed
    /\ ~out_opened

----------------------------------------------------------------------------
(* Runs of ledgerfy_main over configuration documents of every shape the   *)
(* validation distinguishes.                                               *)

\* The rules the configuration documents are built from: a valid one with
\* no match_type, valid ones with "all" and with an empty keyword list, one
\* without account, one whose account is not declared, one without
\* keywords, one whose keywords is not a list, one with another match_type.
ValidateRulePool ==
    { [account |-> ExpensesFood, keywords |-> << <<"a">> >>],
      [account |-> IncomeSalary, keywords |-> <<>>, match_type |-> "all"],
      [keywords |-> << <<"a">> >>],
      [account |-> AssetsExpenses, keywords |-> << <<"a">> >>],
      [account |-> ExpensesFood],
      [account |-> ExpensesFood, keywords |-> NotAList],
      [account |-> IncomeSalary, keywords |-> << <<"b">> >>,
       match_type |-> "some"] }

\* The documents: every combination of an accounts value (a list or not), a
\* rules value (a list of rules or not) and a default_account (declared or
\* not), then documents that lack one top-level key, and the empty one.
ValidateConfigs ==
    { [accounts |-> a, rules |-> r, default_account |-> d] :
        a \in {NotAList, <<ExpensesFood, IncomeSalary>>},
        r \in {NotAList} \cup SeqsUpTo(ValidateRulePool, MaxRules),
        d \in {ExpensesFood, AssetsExpenses} }
    \cup { [rules |-> <<>>, default_account |-> ExpensesFood],
           [accounts |-> <<ExpensesFood>>, default_account |-> ExpensesFood],
           [accounts |-> <<ExpensesFood>>, rules |-> <<>>],
           <<>> }

InitValidate ==
    /\ config \in ValidateConfigs
    /\ pc = "main"
    /\ input_exists = TRUE
    /\ rows \in { <<>>,
                  << MakeRow(Date1 \o <<" ">> \o Time1,
                             [Details |-> <<"a">>, paid |-> <<"7">>,
                              withdrawn |-> <<>>, Balance |-> <<"9">>,
                              status |-> Completed]) >> }
    /\ start_date = Date1
    /\ end_date = <<>>
    /\ row_i = 0
    /\ transactions_by_date = <<>>
    /\ out_opened = FALSE
    /\ ledger_file = <<>>
    /\ stdout = <<>>
    /\ exit_code = -1
    /\ ClassifyIdle
    /\ ExtractIdle

SpecValidate == InitValidate /\ [][Next]_vars

\* The conditions on a configuration document, as the interface states them.
MissingTopLevelKey(cfg) ==
    \E k \in {"accounts", "rules", "default_account"} : k \notin DOMAIN cfg

Declared(account, cfg) ==
    account \in {cfg["accounts"][j] : j \in 1..Len(cfg["accounts"])}

RuleViolates(rule, cfg) ==
    \/ "account" \notin DOMAIN rule
    \/ ~Declared(rule["account"], cfg)
    \/ "keywords" \notin DOMAIN rule
    \/ rule["keywords"] = NotAList
    \/ /\ "match_type" \in DOMAIN rule
       /\ rule["match_type"] # "any"
       /\ rule["match_type"] # "all"

ViolatesSchema(cfg) ==
    \/ MissingTopLevelKey(cfg)
    \/ cfg["accounts"] = NotAList
    \/ cfg["rules"] = NotAList
    \/ ~Declared(cfg["default_account"], cfg)
    \/ \E i \in 1..Len(cfg["rules"]) : RuleViolates(cfg["rules"][i], cfg)

LastMessage(out) == out[Len(out)]["msg"]

(* C11. Config validation is fail-closed: loading the configuration ends   *)
(* the run with a configuration error (status 1) if and only if a          *)
(* top-level key is missing, accounts or rules is not a list,              *)
(* default_account is not in accounts, or some rule lacks account, names   *)
(* an undeclared account, lacks keywords, has keywords that is not a list  *)
(* or has a match_type other than "any"/"all"; every other configuration   *)
(* is accepted and the run goes on to read the input.                      *)
C11_ValidationFailClosed ==
    [][ pc = "load_config" =>
          IF ViolatesSchema(config)
          THEN /\ pc' = "done"
               /\ exit_code' = 1
               /\ Len(stdout') = Len(stdout) + 1
               /\ LastMessage(stdout') = "Configuration error"
          ELSE /\ pc' = "read_input"
               /\ exit_code' = -1
               /\ LastMessage(stdout') = "Configuration validated" ]_vars

\* A run was ended by a configuration whose only fault is the match_type of
\* its second rule.
C11_Witness ==
    /\ pc = "done" /\ exit_code = 1
    /\ ~MissingTopLevelKey(config)
    /\ config["accounts"] # NotAList /\ config["rules"] # NotAList
    /\ Declared(config["default_account"], config)
    /\ Len(config["rules"]) = 2
    /\ ~RuleViolates(config["rules"][1], config)
    /\ {"account", "keywords", "match_type"} \subseteq DOMAIN config["rules"][2]
    /\ config["rules"][2]["account"] = IncomeSalary
    /\ config["rules"][2]["keywords"] # NotAList
    /\ config["rules"][2]["match_type"] = "some"

----------------------------------------------------------------------------
(* The SMS extractor: MpesaParser of xtract-android.py.                    *)
(*                                                                         *)
(* A message is held as what the search of the four patterns makes of it:  *)
(* the index of the first pattern that matches it (0 when none does) and   *)
(* the text of that pattern's named groups. What the callbacks do with the *)
(* groups (cleaning of amounts, parsing of date and time, the records      *)
(* built) is computed from the text of the groups.                         *)

\* Python's None, where a string may stand.
None == (0 :> 1)

\* str.rstrip(".")
RECURSIVE RStripDots(_)
RStripDots(s) ==
    IF s # <<>> /\ s[Len(s)] = "." THEN RStripDots(SubSeq(s, 1, Len(s) - 1))
    ELSE s

NotComma(c) == c # ","

\* str.replace(",", "")
RemoveCommas(s) == SelectSeq(s, NotComma)

\* MpesaParser._clean_amount, in cents.
clean_amount(amount_str) ==
    IF amount_str = None \/ amount_str = <<>> THEN 0
    ELSE LET s == RemoveCommas(RStripDots(amount_str))
         IN  IF FloatOk(s) THEN FloatCents(s) ELSE 0

\* s.split(sep) for a one-character separator.
RECURSIVE Split(_, _)
Split(s, sep) ==
    IF \A i \in 1..Len(s) : s[i] # sep THEN <<s>>
    ELSE LET at == CHOOSE i \in 1..Len(s) :
                      s[i] = sep /\ \A j \in 1..(i - 1) : s[j] # sep
         IN  <<SubSeq(s, 1, at - 1)>> \o Split(SubSeq(s, at + 1, Len(s)), sep)

AllDigits(s) == \A i \in 1..Len(s) : IsDigit(s[i])

\* The number a strptime directive reads from a field of one or two digits
\* (-1 when the field is not that).
Field(s) == IF Len(s) \in {1, 2} /\ AllDigits(s) THEN DigitsVal(s) ELSE -1

IsLeap(year) == (year % 4 = 0 /\ year % 100 # 0) \/ year % 400 = 0

DaysInMonth(year, month) ==
    IF month = 2 THEN (IF IsLeap(year) THEN 29 ELSE 28)
    ELSE IF month \in {4, 6, 9, 11} THEN 30
    ELSE 31

\* MpesaParser._parse_datetime: strptime(f"{date_str} {time_str}",
\* "%d/%m/%y %I:%M %p"). %d, %m and %I read one or two digits in their
\* range, %y reads exactly two digits (00-68 is 2000-2068, 69-99 is
\* 1969-1999), %M two digits, %p AM or PM in either case; the whole text
\* must match and the day must exist in the month, or ValueError is raised
\* (ok is FALSE).
parse_datetime(date_str, time_str) ==
    LET d == Split(date_str, "/")
        t == Split(time_str, ":")
        mp == IF Len(t) = 2 THEN Split(t[2], " ") ELSE <<>>
        ok == /\ Len(d) = 3 /\ Len(t) = 2 /\ Len(mp) = 2
              /\ Field(d[1]) \in 1..31
              /\ Field(d[2]) \in 1..12
              /\ Len(d[3]) = 2 /\ AllDigits(d[3])
              /\ Field(t[1]) \in 1..12
              /\ Len(mp[1]) = 2 /\ Field(mp[1]) \in 0..59
              /\ Lower(mp[2]) \in {<<"a", "m">>, <<"p", "m">>}
        year == IF DigitsVal(d[3]) <= 68 THEN 2000 + DigitsVal(d[3])
                ELSE 1900 + DigitsVal(d[3])
        hour == IF Lower(mp[2]) = <<"p", "m">>
                THEN (IF Field(t[1]) = 12 THEN 12 ELSE Field(t[1]) + 12)
                ELSE (IF Field(t[1]) = 12 THEN 0 ELSE Field(t[1]))
    IN  IF ok /\ Field(d[1]) <= DaysInMonth(year, Field(d[2]))
        THEN [ok |-> TRUE,
              value |-> [year |-> year, month |-> Field(d[2]),
                         day |-> Field(d[1]), hour |-> hour,
                         minute |-> Field(mp[1]), second |-> 0]]
        ELSE [ok |-> FALSE, value |-> <<>>]

\* str.strip() and re.sub(r"\s+", " ", text), over the blank as the only
\* whitespace of the model.
RECURSIVE LStrip(_)
LStrip(s) == IF s # <<>> /\ Head(s) = " " THEN LStrip(Tail(s)) ELSE s

RECURSIVE RStrip(_)
RStrip(s) ==
    IF s # <<>> /\ s[Len(s)] = " " THEN RStrip(SubSeq(s, 1, Len(s) - 1)) ELSE s

RECURSIVE CollapseBlanks(_)
CollapseBlanks(s) ==
    IF Len(s) < 2 THEN s
    ELSE IF s[1] = " " /\ s[2] = " " THEN CollapseBlanks(Tail(s))
    ELSE <<Head(s)>> \o CollapseBlanks(Tail(s))

\* clean_text of xtract.py; MpesaParser._clean_text is the same code.
clean_text(text) ==
    IF text = None \/ text = <<>> THEN <<>>
    ELSE CollapseBlanks(RStrip(LStrip(text)))

CompletedStatus == <<"C", "o", "m", "p", "l", "e", "t", "e", "d">>

MpesaCharge == <<"M", "p", "e", "s", "a", " ", "C", "h", "a", "r", "g", "e">>

\* The dict both callbacks build (lines 108-116, 120-128, 145-153).
SmsRecord(receipt, completion_time, det, paid_in, withdrawn, balance) ==
    ("Receipt No" :> receipt)
    @@ ("Completion Time" :> completion_time)
    @@ ("Details" :> det)
    @@ ("Transaction Status" :> CompletedStatus)
    @@ ("Paid In" :> paid_in)
    @@ ("Withdrawn" :> withdrawn)
    @@ ("Balance" :> balance)

\* The outcome of a callback or of parse: kind is "list" (txns is the list
\* returned), "None" (parse found no pattern) or "ValueError" (raised by
\* _parse_datetime and caught nowhere).
Raised == [kind |-> "ValueError", txns |-> <<>>]

\* MpesaParser._parse_sent(match, sms). The date and time groups are
\* mandatory in every pattern, so the metadata of _extract_metadata is
\* never what `match.group(..) or metadata.get(..)` yields.
parse_sent(match) ==
    LET amt == clean_amount(match.amount)
        charge == clean_amount(match.charge)
        balance == clean_amount(match.balance)
        completion_time == parse_datetime(match.date, match.time)
        main == SmsRecord(match.receipt_number, completion_time.value,
                          clean_text(match.details), <<>>,
                          Fixed2f(amt), Fixed2f(balance))
        fee == SmsRecord(match.receipt_number, completion_time.value,
                         MpesaCharge, <<>>, Fixed2f(charge), Fixed2f(balance))
    IN  IF ~completion_time.ok THEN Raised
        ELSE [kind |-> "list",
              txns |-> IF charge > 0 THEN <<main, fee>> ELSE <<main>>]

\* MpesaParser._parse_received(match, sms)
parse_received(match) ==
    LET amt == clean_amount(match.amount)
        balance == clean_amount(match.balance)
        completion_time == parse_datetime(match.date, match.time)
    IN  IF ~completion_time.ok THEN Raised
        ELSE [kind |-> "list",
              txns |-> << SmsRecord(match.receipt_number, completion_time.value,
                                    clean_text(match.details), Fixed2f(amt),
                                    <<>>, Fixed2f(balance)) >>]

\* MpesaParser.parse(sms): the callback of the first pattern that matches
\* (patterns 1 and 2: _parse_sent, patterns 3 and 4: _parse_received).
parse(sms) ==
    IF sms.pattern = 0 THEN [kind |-> "None", txns |-> <<>>]
    ELSE IF sms.pattern \in {1, 2} THEN parse_sent(sms)
    ELSE parse_received(sms)

----------------------------------------------------------------------------
(* One run of the SMS script: lines 267-291 of xtract-android.py.          *)

MaxSms == 2          \* most messages fetch_sms returns

Receipt == <<"Q", "A", "1", "2", "3", "4", "5", "6", "7", "8">>

\* A message that matches pattern `pattern`, with the text of the groups.
Sms(pattern, amt, det, date, time, balance, charge) ==
    [pattern |-> pattern, receipt_number |-> Receipt, amount |-> amt,
     details |-> det, date |-> date, time |-> time, balance |-> balance,
     charge |-> charge]

\* A message no pattern matches.
OtherSms ==
    [pattern |-> 0, receipt_number |-> None, amount |-> None,
     details |-> None, date |-> None, time |-> None, balance |-> None,
     charge |-> None]

\* The messages of the model. The groups are as the patterns capture them:
\* a charge and (pattern 3) a balance take the full stop that follows them,
\* the date has a year of 2 to 4 digits in patterns 1 and 3 and of 2 digits
\* in patterns 2 and 4.
SmsPool ==
    {
      \* outbound, charge 15.00
      Sms(1, <<"5", "0", "0", ".", "0", "0">>,
          <<"s", "e", "n", "t", " ", "t", "o", " ", " ", "J">>,
          <<"1", "/", "3", "/", "2", "4">>, <<"2", ":", "3", "0", " ", "P", "M">>,
          <<"1", "5", "0", "0", ".", "0", "0">>, <<"1", "5", ".", "0", "0", ".">>),
      \* outbound, no charge in the text
      Sms(1, <<"5", "0", "0", ".", "0", "0">>,
          <<"s", "e", "n", "t", " ", "t", "o", " ", " ", "J">>,
          <<"1", "/", "3", "/", "2", "4">>, <<"2", ":", "3", "0", " ", "P", "M">>,
          <<"1", "5", "0", "0", ".", "0", "0">>, None),
      \* outbound, charge 0.00, a year of the last century, just after midnight
      Sms(1, <<"1", ",", "5", "0", "0", ".", "0", "0">>,
          <<"p", "a", "i", "d", " ", "t", "o", " ", "K">>,
          <<"1", "5", "/", "1", "2", "/", "9", "9">>, <<"1", "2", ":", "0", "5", " ", "A", "M">>,
          <<"0", ".", "0", "0">>, <<"0", ".", "0", "0", ".">>),
      \* outbound, a 4-digit year
      Sms(1, <<"5", "0", "0", ".", "0", "0">>,
          <<"s", "e", "n", "t", " ", "t", "o", " ", " ", "J">>,
          <<"1", "/", "3", "/", "2", "0", "2", "4">>, <<"2", ":", "3", "0", " ", "P", "M">>,
          <<"1", "5", "0", "0", ".", "0", "0">>, <<"1", "5", ".", "0", "0", ".">>),
      \* withdrawal, charge 29.00
      Sms(2, <<"5", "0", "0", ".", "0", "0">>,
          <<"A", "1">>,
          <<"1", "/", "3", "/", "2", "4">>, <<"2", ":", "3", "0", " ", "p", "m">>,
          <<"1", ",", "5", "0", "0", ".", "0", "0">>, <<"2", "9", ".", "0", "0">>),
      \* withdrawal, charge 0.00
      Sms(2, <<"5", "0", "0", ".", "0", "0">>,
          <<"A", "1">>,
          <<"1", "/", "3", "/", "2", "4">>, <<"2", ":", "3", "0", " ", "p", "m">>,
          <<"1", ",", "5", "0", "0", ".", "0", "0">>, <<"0", ".", "0", "0">>),
      \* inbound, at noon, no charge in the text
      Sms(3, <<"5", "0", "0", ".", "0", "0">>,
          <<"f", "r", "o", "m", " ", "J">>,
          <<"1", "/", "3", "/", "2", "4">>, <<"1", "2", ":", "0", "0", " ", "P", "M">>,
          <<"1", "5", "0", "0", ".", "0", "0", ".">>, None),
      \* inbound, charge 15.00
      Sms(3, <<"5", "0", "0", ".", "0", "0">>,
          <<"f", "r", "o", "m", " ", "J">>,
          <<"1", "/", "3", "/", "2", "4">>, <<"1", "2", ":", "0", "0", " ", "P", "M">>,
          <<"1", "5", "0", "0", ".", "0", "0", ".">>, <<"1", "5", ".", "0", "0">>),
      \* inbound, a 4-digit year
      Sms(3, <<"5", "0", "0", ".", "0", "0">>,
          <<"f", "r", "o", "m", " ", "J">>,
          <<"1", "/", "3", "/", "2", "0", "2", "4">>, <<"1", "2", ":", "0", "0", " ", "P", "M">>,
          <<"1", "5", "0", "0", ".", "0", "0", ".">>, None),
      \* deposit (the pattern has no charge group)
      Sms(4, <<"5", "0", "0", ".", "0", "0">>,
          <<"A", "1">>,
          <<"1", "/", "3", "/", "2", "4">>, <<"2", ":", "3", "0", " ", "P", "M">>,
          <<"1", "5", "0", "0", ".", "0", "0">>, None),
      \* not a transaction
      OtherSms }

\* The configuration file of the run: a valid one, and one whose
\* default_account is not among its accounts.
SmsConfigs ==
    LedgerConfigs
    \cup { [accounts |-> <<ExpensesFood>>, rules |-> <<>>,
            default_account |-> IncomeSalary] }

InitSms ==
    /\ config \in SmsConfigs
    /\ spc = "main"
    /\ sms_list \in SeqsUpTo(SmsPool, MaxSms)
    /\ sms_i = 0
    /\ all_transactions = <<>>
    /\ LedgerIdle
    /\ ClassifyIdle
    /\ PdfIdle

Pad2(n) == IF n < 10 THEN <<"0">> \o NatStr(n) ELSE NatStr(n)

\* str(datetime): "YYYY-MM-DD HH:MM:SS" (the years of the model have four
\* digits).
DateTimeStr(dt) ==
    NatStr(dt.year) \o <<"-">> \o Pad2(dt.month) \o <<"-">> \o Pad2(dt.day)
    \o <<" ">> \o Pad2(dt.hour) \o <<":">> \o Pad2(dt.minute)
    \o <<":">> \o Pad2(dt.second)

\* The record csv.DictWriter writes for a dict, as csv.DictReader reads it
\* back: every value is its str().
CsvRow(txn) == [txn EXCEPT !["Completion Time"] = DateTimeStr(@)]

\* The attributes of the Args object of lines 279-286.
SmsArgs == {"input_file", "config", "output_file_path", "start_date", "end_date"}

\* Lines 198-202 of process_data (and lines 271-273 when it returns None).
SmsFetch ==
    /\ spc = "main"
    /\ IF sms_list = <<>>
       THEN /\ stdout' = stdout \o << Message("No SMS found", <<>>, <<>>),
                                      Message("No transactions found!", <<>>, <<>>) >>
            /\ exit_code' = 1
            /\ spc' = "done"
       ELSE /\ spc' = "process_data"
            /\ UNCHANGED <<stdout, exit_code>>
    /\ sms_i' = 0
    /\ all_transactions' = <<>>
    /\ UNCHANGED <<config, classify_vars, pdf_vars, sms_list, pc, input_exists,
                   rows, start_date, end_date, row_i, transactions_by_date,
                   out_opened, ledger_file>>

\* Lines 204-207: one iteration of the loop over the messages. Nothing
\* catches what parse raises: the script ends with a traceback.
SmsParse ==
    /\ spc = "process_data"
    /\ sms_i < Len(sms_list)
    /\ LET got == parse(sms_list[sms_i + 1])
       IN  CASE got.kind = "list" ->
                   /\ all_transactions' = all_transactions \o got.txns
                   /\ sms_i' = sms_i + 1
                   /\ UNCHANGED <<spc, exit_code>>
             [] got.kind = "None" ->
                   /\ sms_i' = sms_i + 1
                   /\ UNCHANGED <<spc, all_transactions, exit_code>>
             [] OTHER ->
                   /\ spc' = "crashed"
                   /\ exit_code' = 1
                   /\ UNCHANGED <<sms_i, all_transactions>>
    /\ UNCHANGED <<config, classify_vars, pdf_vars, sms_list, pc, input_exists,
                   rows, start_date, end_date, row_i, transactions_by_date,
                   out_opened, ledger_file, stdout>>

\* Lines 208-212 of process_data, then lines 271-276: with no record the
\* script exits with status 1, otherwise transactions_to_csv writes the
\* temporary CSV file that ledgerfy is to read.
SmsCollected ==
    /\ spc = "process_data"
    /\ sms_i = Len(sms_list)
    /\ IF all_transactions = <<>>
       THEN /\ stdout' = stdout \o << Message("No transactions found", <<>>, <<>>),
                                      Message("No transactions found!", <<>>, <<>>) >>
            /\ exit_code' = 1
            /\ spc' = "done"
            /\ UNCHANGED <<rows, input_exists>>
       ELSE /\ rows' = [k \in 1..Len(all_transactions) |-> CsvRow(all_transactions[k])]
            /\ input_exists' = TRUE
            /\ stdout' = Append(stdout, Message("Created CSV", <<>>, <<>>))
            /\ spc' = "ledgerfy"
            /\ UNCHANGED exit_code
    /\ UNCHANGED <<config, classify_vars, pdf_vars, sms_list, sms_i,
                   all_transactions, pc, start_date, end_date, row_i,
                   transactions_by_date, out_opened, ledger_file>>

\* Lines 288-291, into lines 286-290 of ledgerfy_main: the input file
\* exists, and `args.output` raises AttributeError, since Args sets
\* output_file_path and no output. Nothing catches it: the script ends
\* with a traceback before parse_mpesa_to_ledger_with_balance is called.
SmsLedgerfyMain ==
    /\ spc = "ledgerfy"
    /\ IF "output" \notin SmsArgs
       THEN /\ spc' = "crashed"
            /\ exit_code' = 1
            /\ UNCHANGED pc
       ELSE /\ spc' = "ledgerfy_main"
            /\ pc' = "load_config"
            /\ UNCHANGED exit_code
    /\ UNCHANGED <<config, classify_vars, pdf_vars, sms_list, sms_i,
                   all_transactions, input_exists, rows, start_date, end_date,
                   row_i, transactions_by_date, out_opened, ledger_file,
                   stdout>>

NextSms == SmsFetch \/ SmsParse \/ SmsCollected \/ SmsLedgerfyMain

SpecSms == InitSms /\ [][NextSms]_vars

----------------------------------------------------------------------------
(* The two ways to a ledger: ledgerfy_main on a CSV/JSON file, and the SMS *)
(* script.                                                                 *)

InitPipelines == InitValidate \/ InitSms

NextPipelines == Next \/ NextSms

SpecPipelines == InitPipelines /\ [][NextPipelines]_vars

(* C12. A configuration error comes before any extraction or               *)
(* classification: in every run whose configuration violates the schema,   *)
(* on the CSV/JSON path and on the SMS path alike, no input record is      *)
(* read, no message is extracted, no record is classified and no ledger    *)
(* is written.                                                             *)
C12_ConfigErrorBeforeExtraction ==
    ViolatesSchema(config) =>
        /\ pc \notin {"read_input", "rows"}
        /\ row_i = 0
        /\ transactions_by_date = <<>>
        /\ ~out_opened /\ ledger_file = <<>>
        /\ all_transactions = <<>>


----------------------------------------------------------------------------
(* Input files with malformed records: a field that float() rejects, a     *)
(* missing column.                                                         *)

NotDecimal == <<"n", "/", "a">>

\* A completed inbound record, the same with a Paid In that is not a
\* number, a failed record with a Balance that is not a number, a record
\* of the earlier date with a Withdrawn that is not a number, and a record
\* without its Balance column.
MalformedRowPool ==
    LET good == [Details |-> <<"a">>, paid |-> <<"7">>, withdrawn |-> <<>>,
                 Balance |-> <<"2", "5">>, status |-> Completed]
        late == MakeRow(Date2 \o <<" ">> \o Time2, good)
    IN  { MakeRow(Date2 \o <<" ">> \o Time1, good),
          MakeRow(Date2 \o <<" ">> \o Time2,
                  [good EXCEPT !.paid = NotDecimal]),
          MakeRow(Date2 \o <<" ">> \o Time2,
                  [good EXCEPT !.Balance = NotDecimal,
                               !.status = <<"F", "a", "i", "l", "e", "d">>]),
          MakeRow(Date1 \o <<" ">> \o Time1,
                  [good EXCEPT !.paid = <<>>, !.withdrawn = NotDecimal]),
          [col \in RowColumns \ {"Balance"} |-> late[col]] }

InitMalformed ==
    /\ config \in LedgerConfigs
    /\ pc = "main"
    /\ input_exists = TRUE
    /\ rows \in SeqsUpTo(MalformedRowPool, MaxRows)
    /\ start_date \in {Date1, Date2}
    /\ end_date = <<>>
    /\ row_i = 0
    /\ transactions_by_date = <<>>
    /\ out_opened = FALSE
    /\ ledger_file = <<>>
    /\ stdout = <<>>
    /\ exit_code = -1
    /\ ClassifyIdle
    /\ ExtractIdle

SpecMalformed == InitMalformed /\ [][Next]_vars

\* Record k has every column, and its amount fields are empty or decimal
\* strings.
WellFormedRow(k) ==
    /\ RowColumns \subseteq DOMAIN rows[k]
    /\ \A col \in {"Paid In", "Withdrawn", "Balance"} :
         rows[k][col] = <<>> \/ FloatOk(rows[k][col])

ValidRows == {k \in 1..Len(rows) : WellFormedRow(k) /\ Accepted(k)}

RunEnded == pc \in {"done", "crashed"}

(* C13. Per-record errors never abort the batch in the ledger stage: when  *)
(* a run that read its input has ended, its completion status is success   *)
(* and every valid, in-range, completed record has its posting in the      *)
(* file, whatever malformed records (a Paid In, Withdrawn or Balance that  *)
(* is not a decimal string, a missing column) the input also held: those   *)
(* are dropped.                                                            *)
C13_RecordErrorsDoNotAbort ==
    (RunEnded /\ HasMessage("Configuration validated")) =>
        /\ exit_code = 0
        /\ Cardinality(LinesOfKind("posting")) = Cardinality(ValidRows)

----------------------------------------------------------------------------
(* What the claims about the SMS extractor speak of.                       *)

\* The loop of process_data is about to hand a message to parse.
AtSms == spc = "process_data" /\ sms_i < Len(sms_list)

CurrentSms == sms_list[sms_i + 1]

\* The message matches one of the four patterns.
MatchesPattern(sms) == sms.pattern # 0

\* The year of the message's date has two digits.
TwoDigitYear(sms) == Len(Split(sms.date, "/")[3]) = 2

\* The charge the message states, in cents (0 when it states none).
CapturedCharge(sms) ==
    IF sms.charge = None THEN 0
    ELSE FloatCents(RemoveCommas(RStripDots(sms.charge)))

(* C14. SMS charge record: the iteration of process_data for a message     *)
(* that matches a primary pattern (of any of the four shapes) appends      *)
(* exactly two records when a non-zero charge was captured, the main       *)
(* record and then one with details "Mpesa Charge", the same receipt       *)
(* number, timestamp and balance and withdrawn equal to the charge, and    *)
(* exactly one record when the charge is absent or zero. Stated for the    *)
(* messages whose date has a 2-digit year.                                 *)
C14_SmsChargeRecord ==
    [][ (AtSms /\ MatchesPattern(CurrentSms) /\ TwoDigitYear(CurrentSms)) =>
          LET before == Len(all_transactions)
              new == SubSeq(all_transactions', before + 1, Len(all_transactions'))
              charge == CapturedCharge(CurrentSms)
          IN  /\ SubSeq(all_transactions', 1, before) = all_transactions
              /\ IF charge > 0
                 THEN /\ Len(new) = 2
                      /\ new[2]["Details"] = MpesaCharge
                      /\ new[2]["Receipt No"] = new[1]["Receipt No"]
                      /\ new[2]["Completion Time"] = new[1]["Completion Time"]
                      /\ new[2]["Balance"] = new[1]["Balance"]
                      /\ new[2]["Paid In"] = <<>>
                      /\ FloatCents(new[2]["Withdrawn"]) = charge
                 ELSE Len(new) = 1 ]_vars

----------------------------------------------------------------------------
(* The tabular extractor: xtract.py. A table is a sequence of rows, a row  *)
(* a sequence of cells, a cell a string or None, as page.extract_tables()  *)
(* gives them. The rows of the model are those of the pages that hold the  *)
(* text "Receipt No." (line 27).                                           *)

MaxTableRows == 2    \* most rows in the tables of a statement

\* `if cell` on a cell: neither None nor the empty string.
Truthy(cell) == cell # None /\ cell # <<>>

\* The tokens of lines 44-52.
HeaderTokens ==
    { <<"r", "e", "c", "e", "i", "p", "t">>,
      <<"c", "o", "m", "p", "l", "e", "t", "i", "o", "n">>,
      <<"d", "e", "t", "a", "i", "l", "s">>,
      <<"t", "r", "a", "n", "s", "a", "c", "t", "i", "o", "n">>,
      <<"p", "a", "i", "d">>,
      <<"w", "i", "t", "h", "d", "r", "a", "w", "n">>,
      <<"b", "a", "l", "a", "n", "c", "e">> }

\* The markers of lines 61-66.
FooterMarkers ==
    { <<"D", "i", "s", "c", "l", "a", "i", "m", "e", "r">>,
      <<"V", "e", "r", "i", "f", "i", "c", "a", "t", "i", "o", "n">>,
      <<"F", "o", "r", " ", "s", "e", "l", "f", "-", "h", "e", "l", "p">>,
      <<"P", "a", "g", "e">> }

\* The cells that lines 40-54 and 57-68 look at.
TruthyCells(row) == {i \in 1..Len(row) : Truthy(row[i])}

IsHeaderRowExact(row) ==
    \E i \in TruthyCells(row) : Lower(row[i]) \in HeaderTokens

\* Lines 40-54: any(header in str(cell).lower() ...)
IsHeaderRow(row) ==
    \E i \in TruthyCells(row) :
        \E header \in HeaderTokens : IsSubstring(header, Lower(row[i]))

\* Lines 57-68: any(footer in str(cell) ...)
IsFooterRow(row) ==
    \E i \in TruthyCells(row) :
        \E footer \in FooterMarkers : IsSubstring(footer, row[i])

\* re.sub(r"[^\d.-]", "", s): the characters that are kept.
AmountChar(c) == IsDigit(c) \/ c = "." \/ c = "-"

\* "".join(parts)
RECURSIVE Join(_)
Join(parts) == IF parts = <<>> THEN <<>> ELSE Head(parts) \o Join(Tail(parts))

\* clean_amount_to_number(amount_str): <<>> for None, <<c>> for the float
\* of c cents.
clean_amount_to_number(amount_str) ==
    IF amount_str = None \/ amount_str = <<>> THEN <<>>
    ELSE
    LET kept == SelectSeq(RStrip(LStrip(amount_str)), AmountChar)
        parts == Split(kept, ".")
        joined == IF Len(parts) > 2
                  THEN parts[1] \o <<".">> \o Join(Tail(parts))
                  ELSE kept
    IN  IF kept \in {<<>>, <<"-">>, <<".">>} THEN <<>>
        ELSE IF FloatOk(joined) THEN <<FloatCents(joined)>>
        ELSE <<>>

\* Lines 110-111.
AbsIfNegative(a) == IF a # <<>> /\ a[1] < 0 THEN <<0 - a[1]>> ELSE a

\* process_transaction_row(row): <<>> for None, <<r>> for the dict r.
\* Nothing in the try block raises on a list of strings and Nones.
process_transaction_row(row) ==
    IF Len(row) < 7 THEN <<>>
    ELSE
    LET receipt_no == clean_text(row[1])
        completion_time == clean_text(row[2])
        transaction_status == clean_text(row[4])
    IN  IF receipt_no = <<>> \/ completion_time = <<>> THEN <<>>
        ELSE << [receiptNo |-> receipt_no,
                 completionTime |-> completion_time,
                 details |-> clean_text(row[3]),
                 transactionStatus |->
                     IF transaction_status = <<>> THEN CompletedStatus
                     ELSE transaction_status,
                 paidIn |-> clean_amount_to_number(clean_text(row[5])),
                 withdrawn |->
                     AbsIfNegative(clean_amount_to_number(clean_text(row[6]))),
                 balance |-> clean_amount_to_number(clean_text(row[7]))] >>

\* Lines 36-68: the row is passed over (a `continue`).
PassedOver(row) == Len(row) < 6 \/ IsHeaderRow(row) \/ IsFooterRow(row)

\* The rows of the model.
TableRowPool ==
    {
      \* an outbound transaction, its amount written with a minus sign
      << <<"Q", "A", "1">>,
         <<"2", "0", "2", "4", "-", "0", "3", "-", "0", "1", " ", "1", "4",
           ":", "3", "0", ":", "0", "0">>,
         <<"C", "u", "s", "t", "o", "m", "e", "r", " ", "T", "r", "a", "n",
           "s", "f", "e", "r", " ", "t", "o", " ", "J">>,
         <<"C", "o", "m", "p", "l", "e", "t", "e", "d">>,
         <<>>,
         <<"-", "5", "0", "0", ".", "0", "0">>,
         <<"1", ",", "5", "0", "0", ".", "0", "0">> >>,
      \* an inbound one: no status, blanks in the details, a currency prefix
      << <<"Q", "A", "2">>,
         <<"2", "0", "2", "4", "-", "0", "3", "-", "0", "1", " ", "1", "4",
           ":", "3", "0", ":", "0", "0">>,
         <<" ", "F", "u", "n", "d", "s", " ", " ", "r", "e", "c", "e", "i",
           "v", "e", "d", " ", "f", "r", "o", "m", " ", "J", " ">>,
         None,
         <<"K", "s", "h", " ", "1", "0", "0", ".", "0", "0">>,
         None,
         <<"1", ".", "6", "0", "0", ".", "0", "0">> >>,
      \* amounts in both columns, a dash for the balance
      << <<"Q", "A", "3">>,
         <<"2", "0", "2", "4", "-", "0", "3", "-", "0", "1", " ", "1", "4",
           ":", "3", "0", ":", "0", "0">>,
         <<"R", "e", "v", "e", "r", "s", "a", "l">>,
         <<"C", "o", "m", "p", "l", "e", "t", "e", "d">>,
         <<"1", "0", "0", ".", "0", "0">>,
         <<"-", "5", "0", ".", "0", "0">>,
         <<"-">> >>,
      \* a negative amount in the Paid In column, a balance float() rejects
      << <<"Q", "A", "4">>,
         <<"2", "0", "2", "4", "-", "0", "3", "-", "0", "1", " ", "1", "4",
           ":", "3", "0", ":", "0", "0">>,
         <<"R", "e", "v", "e", "r", "s", "a", "l">>,
         <<"F", "a", "i", "l", "e", "d">>,
         <<"-", "1", "0", "0", ".", "0", "0">>,
         <<>>,
         <<"5", "-">> >>,
      \* the header of the table, repeated on each page
      << <<"R", "e", "c", "e", "i", "p", "t", " ", "N", "o", ".">>,
         <<"C", "o", "m", "p", "l", "e", "t", "i", "o", "n", " ", "T", "i",
           "m", "e">>,
         <<"D", "e", "t", "a", "i", "l", "s">>,
         <<"T", "r", "a", "n", "s", "a", "c", "t", "i", "o", "n", " ", "S",
           "t", "a", "t", "u", "s">>,
         <<"P", "a", "i", "d", " ", "I", "n">>,
         <<"W", "i", "t", "h", "d", "r", "a", "w", "n">>,
         <<"B", "a", "l", "a", "n", "c", "e">> >>,
      \* a transaction whose details hold the word "paid"
      << <<"Q", "A", "5">>,
         <<"2", "0", "2", "4", "-", "0", "3", "-", "0", "1", " ", "1", "4",
           ":", "3", "0", ":", "0", "0">>,
         <<"B", "i", "l", "l", " ", "p", "a", "i", "d", " ", "t", "o", " ",
           "K">>,
         <<"C", "o", "m", "p", "l", "e", "t", "e", "d">>,
         <<>>,
         <<"2", "0", ".", "0", "0">>,
         <<"8", "0", ".", "0", "0">> >>,
      \* a footer line
      << <<"P", "a", "g", "e", " ", "1", " ", "o", "f", " ", "2">>,
         None,
         None,
         None,
         None,
         None,
         None >>,
      \* a row of 5 cells
      << <<"Q", "A", "6">>,
         <<"2", "0", "2", "4", "-", "0", "3", "-", "0", "1", " ", "1", "4",
           ":", "3", "0", ":", "0", "0">>,
         <<"A", "i", "r", "t", "i", "m", "e">>,
         <<"C", "o", "m", "p", "l", "e", "t", "e", "d">>,
         <<"1", "0", ".", "0", "0">> >>,
      \* a row of 6 cells
      << <<"Q", "A", "7">>,
         <<"2", "0", "2", "4", "-", "0", "3", "-", "0", "1", " ", "1", "4",
           ":", "3", "0", ":", "0", "0">>,
         <<"A", "i", "r", "t", "i", "m", "e">>,
         <<"C", "o", "m", "p", "l", "e", "t", "e", "d">>,
         <<>>,
         <<"1", "0", ".", "0", "0">> >>,
      \* a row without a receipt number
      << None,
         <<"2", "0", "2", "4", "-", "0", "3", "-", "0", "1", " ", "1", "4",
           ":", "3", "0", ":", "0", "0">>,
         <<"A", "i", "r", "t", "i", "m", "e">>,
         <<"C", "o", "m", "p", "l", "e", "t", "e", "d">>,
         <<>>,
         <<"1", "0", ".", "0", "0">>,
         <<"7", "0", ".", "0", "0">> >>,
      \* a row whose completion time is blank
      << <<"Q", "A", "8">>,
         <<" ">>,
         <<"A", "i", "r", "t", "i", "m", "e">>,
         <<"C", "o", "m", "p", "l", "e", "t", "e", "d">>,
         <<>>,
         <<"1", "0", ".", "0", "0">>,
         <<"7", "0", ".", "0", "0">> >> }

InitPdf ==
    /\ config \in LedgerConfigs
    /\ xpc = "rows"
    /\ table \in SeqsUpTo(TableRowPool, MaxTableRows)
    /\ table_i = 0
    /\ transactions = <<>>
    /\ ClassifyIdle
    /\ LedgerIdle
    /\ SmsIdle

\* Lines 34-73: one iteration of the loop over the rows.
ExtractRow ==
    /\ xpc = "rows"
    /\ table_i < Len(table)
    /\ LET row == table[table_i + 1]
       IN  transactions' =
             IF PassedOver(row) THEN transactions
             ELSE transactions \o process_transaction_row(row)
    /\ table_i' = table_i + 1
    /\ UNCHANGED <<config, classify_vars, ledger_vars, sms_vars, xpc, table>>

\* Line 75: return transactions.
ExtractReturn ==
    /\ xpc = "rows"
    /\ table_i = Len(table)
    /\ xpc' = "done"
    /\ UNCHANGED <<config, classify_vars, ledger_vars, sms_vars, table, table_i,
                   transactions>>

NextPdf == ExtractRow \/ ExtractReturn

SpecPdf == InitPdf /\ [][NextPdf]_vars

----------------------------------------------------------------------------
(* The two extractors.                                                     *)

InitExtractors == InitSms \/ InitPdf

NextExtractors == NextSms \/ NextPdf

SpecExtractors == InitExtractors /\ [][NextExtractors]_vars

\* An amount of a record of the tabular extractor is there and not zero.
NonZeroNumber(a) == a # <<>> /\ a[1] # 0

\* An amount of a record of the SMS extractor is there and not zero.
NonZeroText(s) == s # <<>> /\ FloatCents(s) # 0

(* C15. Direction invariant: every record emitted by either extractor (a   *)
(* tabular row by process_transaction_row, an SMS message by               *)
(* MpesaParser.parse) has at most one of paidIn / withdrawn non-zero.      *)
C15_OneDirection ==
    /\ \A k \in 1..Len(transactions) :
         ~(NonZeroNumber(transactions[k].paidIn)
           /\ NonZeroNumber(transactions[k].withdrawn))
    /\ \A k \in 1..Len(all_transactions) :
         ~(NonZeroText(all_transactions[k]["Paid In"])
           /\ NonZeroText(all_transactions[k]["Withdrawn"]))

----------------------------------------------------------------------------
(* What the claims about the tabular extractor speak of.                   *)

\* The loop is about to take a row of the table.
AtRow == xpc = "rows" /\ table_i < Len(table)

CurrentRow == table[table_i + 1]

\* The text of a cell holds the marker, letter case aside or not.
CellHolds(cell, marker, any_case) ==
    /\ cell # None
    /\ LET text == IF any_case THEN Lower(cell) ELSE cell
       IN  \E at \in 1..Len(text) :
             /\ at + Len(marker) - 1 <= Len(text)
             /\ \A j \in 1..Len(marker) : text[at + j - 1] = marker[j]

HasHeaderCell(row) ==
    \E i \in 1..Len(row) : \E h \in HeaderTokens : CellHolds(row[i], h, TRUE)

HasFooterCell(row) ==
    \E i \in 1..Len(row) : \E f \in FooterMarkers : CellHolds(row[i], f, FALSE)

\* The cell has text other than blanks.
Present(cell) == cell # None /\ \E i \in 1..Len(cell) : cell[i] # " "

\* A genuine transaction row.
Genuine(row) ==
    /\ Len(row) = 7
    /\ Present(row[1])
    /\ Present(row[2])
    /\ ~HasHeaderCell(row)
    /\ ~HasFooterCell(row)

----------------------------------------------------------------------------
(* Calls of categorize_transaction, alone and from the loop of a ledger    *)
(* run, under rule lists whose outcome depends on the details and on the   *)
(* amount.                                                                 *)

MemoryRulePool ==
    { [account |-> ExpensesFood, keywords |-> << <<"a">> >>,
       condition |-> "amount > 1"],
      [account |-> IncomeSalary, keywords |-> << <<"a">> >>],
      [account |-> IncomeSalary, keywords |-> << <<"b">> >>,
       condition |-> "1 / amount > 0"] }

MemoryConfigs ==
    { [accounts |-> Accounts, rules |-> rs, default_account |-> AssetsExpenses] :
        rs \in SeqsUpTo(MemoryRulePool, MaxRules) }

\* Records with the same details and different amounts, and one the third
\* rule's condition raises on.
MemoryRowPool ==
    { MakeRow(ct, b) :
        ct \in {Date2 \o <<" ">> \o Time1, Date2 \o <<" ">> \o Time2},
        b \in { [Details |-> <<"a">>, paid |-> <<"7">>, withdrawn |-> <<>>,
                 Balance |-> <<"2", "5">>, status |-> Completed],
                [Details |-> <<"a">>, paid |-> <<>>, withdrawn |-> <<"0", ".", "5">>,
                 Balance |-> <<"2", "5">>, status |-> Completed],
                [Details |-> <<"B">>, paid |-> <<"0">>, withdrawn |-> <<>>,
                 Balance |-> <<>>, status |-> Completed] } }

InitMemoryCall ==
    /\ config \in MemoryConfigs
    /\ cpc = "call"
    /\ details \in SeqsUpTo(DetailChars, MaxDetailsLen)
    /\ amount \in ClassifyAmounts
    /\ details_lower = <<>>
    /\ rule_i = 0
    /\ evaluated = {}
    /\ result = NoAccount
    /\ returned_by = 0
    /\ LedgerIdle
    /\ ExtractIdle

InitMemoryBatch ==
    /\ config \in MemoryConfigs
    /\ pc = "main"
    /\ input_exists = TRUE
    /\ rows \in SeqsUpTo(MemoryRowPool, MaxRows)
    /\ start_date = Date1
    /\ end_date = <<>>
    /\ row_i = 0
    /\ transactions_by_date = <<>>
    /\ out_opened = FALSE
    /\ ledger_file = <<>>
    /\ stdout = <<>>
    /\ exit_code = -1
    /\ ClassifyIdle
    /\ ExtractIdle

InitMemory == InitMemoryCall \/ InitMemoryBatch

NextMemory == NextClassify \/ Next

SpecMemory == InitMemory /\ [][NextMemory]_vars

\* The records the loop of the ledger run has classified so far.
Classified ==
    UNION { {transactions_by_date[d][k] : k \in 1..Len(transactions_by_date[d])} :
            d \in DOMAIN transactions_by_date }

----------------------------------------------------------------------------
(* Calls of categorize_transaction under rule lists with rules whose       *)
(* keyword list is empty.                                                  *)

\* Rules without keywords, of either match type and of none, with and
\* without an exclude list and a condition, and a rule with a keyword.
EmptyKeywordRulePool ==
    { [account |-> ExpensesFood, keywords |-> <<>>, match_type |-> "all"],
      [account |-> ExpensesFood, keywords |-> <<>>, match_type |-> "any",
       exclude |-> << <<"b">> >>],
      [account |-> AssetsExpenses, keywords |-> <<>>, match_type |-> "all",
       condition |-> "amount > 1"],
      [account |-> AssetsExpenses, keywords |-> <<>>,
       exclude |-> << <<"b">> >>, condition |-> "amount"],
      [account |-> IncomeSalary, keywords |-> << <<"a">> >>] }

EmptyKeywordConfigs ==
    { [accounts |-> Accounts, rules |-> rs, default_account |-> ExpensesFood] :
        rs \in SeqsUpTo(EmptyKeywordRulePool, MaxRules) }

InitEmptyKeywords ==
    /\ config \in EmptyKeywordConfigs
    /\ cpc = "call"
    /\ details \in SeqsUpTo(DetailChars, MaxDetailsLen)
    /\ amount \in ClassifyAmounts
    /\ details_lower = <<>>
    /\ rule_i = 0
    /\ evaluated = {}
    /\ result = NoAccount
    /\ returned_by = 0
    /\ LedgerIdle
    /\ ExtractIdle

SpecEmptyKeywords == InitEmptyKeywords /\ [][NextClassify]_vars

NoKeywords(i) == Len(TheRules[i]["keywords"]) = 0

(* C18. A rule with an empty keywords list never matches any transaction,  *)
(* for either match_type and whether or not it has an exclude list or a    *)
(* condition: the loop iteration for such a rule goes on to the next rule  *)
(* without returning and without evaluating the condition, and no call     *)
(* returns by such a rule.                                                 *)
C18_EmptyKeywordsNeverMatch ==
    /\ [][ (AtRule /\ NoKeywords(rule_i)) => SkippedUnevaluated ]_vars
    /\ [](Returned => (returned_by = 0 \/ ~NoKeywords(returned_by)))

\* The first rule, without keywords, of match type "all" and with a
\* condition that holds for the amount, was passed; the second returned.
C18_Witness ==
    /\ Returned
    /\ Len(TheRules) = 2
    /\ NoKeywords(1)
    /\ IsAllRule(1)
    /\ ConditionPresent(1) /\ ~ConditionFails(1)
    /\ returned_by = 2
    /\ result = IncomeSalary
    /\ evaluated = {}

\* The number in a cell of an amount column, where it holds one.
CellNumber(cell) == clean_amount_to_number(clean_text(cell))

(* C19. Non-negative amounts: every record emitted by the tabular          *)
(* extractor has paidIn that is absent or >= 0 and withdrawn that is       *)
(* absent or >= 0; a negative value in the withdrawn cell of a row is      *)
(* replaced by its absolute value in the row's record.                     *)
C19_NonNegativeAmounts ==
    /\ [](\A k \in 1..Len(transactions) :
            /\ transactions[k].paidIn = <<>> \/ transactions[k].paidIn[1] >= 0
            /\ transactions[k].withdrawn = <<>>
                 \/ transactions[k].withdrawn[1] >= 0)
    /\ [][ (AtRow /\ Len(transactions') = Len(transactions) + 1
                  /\ CellNumber(CurrentRow[6]) # <<>>
                  /\ CellNumber(CurrentRow[6])[1] < 0) =>
             transactions'[Len(transactions')].withdrawn =
                 <<0 - CellNumber(CurrentRow[6])[1]>> ]_vars

\* The day, month, year, hour and minute the text of a message gives: the
\* date is day/month/year, the time hour:minute and AM or PM.
SmsDateParts(sms) == Split(sms.date, "/")

SmsTimeParts(sms) ==
    LET hm == Split(sms.time, ":")
    IN  <<hm[1]>> \o Split(hm[2], " ")

SmsHour24(sms) ==
    LET h == DigitsVal(SmsTimeParts(sms)[1])
        pm == Lower(SmsTimeParts(sms)[3]) = <<"p", "m">>
    IN  (h % 12) + (IF pm THEN 12 ELSE 0)

\* The timestamp ts is that of the message.
TimestampOf(ts, sms) ==
    /\ ts.day = DigitsVal(SmsDateParts(sms)[1])
    /\ ts.month = DigitsVal(SmsDateParts(sms)[2])
    /\ IF Len(SmsDateParts(sms)[3]) = 2
       THEN ts.year % 100 = DigitsVal(SmsDateParts(sms)[3])
       ELSE ts.year = DigitsVal(SmsDateParts(sms)[3])
    /\ ts.hour = SmsHour24(sms)
    /\ ts.minute = DigitsVal(SmsTimeParts(sms)[2])
    /\ ts.second = 0

(* C20. SMS date/time parsing: the iteration of process_data for a message *)
(* that matches a primary pattern, its date with a 2-digit or a 4-digit    *)
(* year, appends a record whose timestamp is that day/month/year at the    *)
(* given 12-hour AM/PM time with seconds zero, and goes on to the next     *)
(* message: parsing the date never raises out of MpesaParser.parse.        *)
C20_SmsDateTime ==
    [][ (AtSms /\ MatchesPattern(CurrentSms)) =>
          /\ spc' = "process_data"
          /\ sms_i' = sms_i + 1
          /\ Len(all_transactions') > Len(all_transactions)
          /\ TimestampOf(
                all_transactions'[Len(all_transactions) + 1]["Completion Time"],
                CurrentSms) ]_vars

----------------------------------------------------------------------------
(* Calls of categorize_transaction under validated configurations, and     *)
(* ledger runs over configurations whose rules and default name declared   *)
(* and undeclared accounts.                                                *)

DeclaredRulePool ==
    { [account |-> ExpensesFood, keywords |-> << <<"a">> >>,
       condition |-> "amount > 1"],
      [account |-> IncomeSalary, keywords |-> << <<"b">> >>],
      [account |-> AssetsExpenses, keywords |-> << <<"a">> >>],
      [account |-> AssetsExpenses, keywords |-> << <<"b">> >>,
       exclude |-> << <<"a">> >>] }

DeclaredConfigs ==
    { [accounts |-> a, rules |-> rs, default_account |-> d] :
        a \in {<<ExpensesFood, IncomeSalary>>, Accounts},
        rs \in SeqsUpTo(DeclaredRulePool, MaxRules),
        d \in {ExpensesFood, AssetsExpenses} }

\* Records that the rules tell apart, one of them matched by no rule.
DeclaredRowPool ==
    { MakeRow(Date2 \o <<" ">> \o Time1, b) :
        b \in { [Details |-> <<"a">>, paid |-> <<"7">>, withdrawn |-> <<>>,
                 Balance |-> <<"2", "5">>, status |-> Completed],
                [Details |-> <<"B">>, paid |-> <<>>, withdrawn |-> <<"9">>,
                 Balance |-> <<"1", "6">>, status |-> Completed],
                [Details |-> <<"x">>, paid |-> <<>>, withdrawn |-> <<"0", ".", "5">>,
                 Balance |-> <<>>, status |-> Completed] } }

\* A call with a configuration load_config has returned.
InitDeclaredCall ==
    /\ config \in {c \in DeclaredConfigs : validate_config(c) = ""}
    /\ cpc = "call"
    /\ details \in SeqsUpTo(DetailChars, MaxDetailsLen)
    /\ amount \in ClassifyAmounts
    /\ details_lower = <<>>
    /\ rule_i = 0
    /\ evaluated = {}
    /\ result = NoAccount
    /\ returned_by = 0
    /\ LedgerIdle
    /\ ExtractIdle

InitDeclaredBatch ==
    /\ config \in DeclaredConfigs
    /\ pc = "main"
    /\ input_exists = TRUE
    /\ rows \in SeqsUpTo(DeclaredRowPool, MaxRows)
    /\ start_date = Date1
    /\ end_date = <<>>
    /\ row_i = 0
    /\ transactions_by_date = <<>>
    /\ out_opened = FALSE
    /\ ledger_file = <<>>
    /\ stdout = <<>>
    /\ exit_code = -1
    /\ ClassifyIdle
    /\ ExtractIdle

InitDeclared == InitDeclaredCall \/ InitDeclaredBatch

NextDeclared == NextClassify \/ Next

SpecDeclared == InitDeclared /\ [][NextDeclared]_vars

\* The account is one of the accounts the configuration declares.
IsDeclared(account) ==
    \E i \in 1..Len(config["accounts"]) : config["accounts"][i] = account

(* C21. For every configuration accepted by validate_config and every      *)
(* details and amount, the account categorize_transaction returns is a     *)
(* member of config["accounts"]; hence every posting line of a rendered    *)
(* ledger names a declared account.                                        *)
C21_DeclaredAccounts ==
    /\ (Returned /\ ~ViolatesSchema(config)) => IsDeclared(result)
    /\ \A i \in LinesOfKind("posting") : IsDeclared(ledger_file[i]["account"])

\* A ledger of two postings under a configuration that declares two
\* accounts: one posting by a rule, one by the default.
C21_Witness ==
    /\ RunCompleted
    /\ Len(config["accounts"]) = 2
    /\ Len(config["rules"]) = 2
    /\ \E i, j \in LinesOfKind("posting") :
         /\ ledger_file[i]["account"] = IncomeSalary
         /\ ledger_file[j]["account"] = config["default_account"]
         /\ ledger_file[j]["details"] = <<"x">>

----------------------------------------------------------------------------
(* The postings of the file against the records of the input.              *)

Postings == LinesOfKind("posting")

\* The date of the block that posting line i stands in: that of the last
\* date line before it.
PostingDate(i) ==
    LET before == {j \in LinesOfKind("date") : j < i}
        j == CHOOSE a \in before : \A b \in before : b <= a
    IN  ledger_file[j]["date"]

\* Posting line i is the posting of record k: in the block of the record's
\* date, with the record's details and derived amount (shown as it is or
\* negated).
PostingOf(i, k) ==
    /\ \E j \in LinesOfKind("date") : j < i
    /\ PostingDate(i) = RowDate(k)
    /\ ledger_file[i]["details"] = rows[k]["Details"]
    /\ FloatCents(ledger_file[i]["amount"]) \in {RowAmount(k), 0 - RowAmount(k)}

(* C22. The rendered ledger conserves records: every record that passes    *)
(* the status/date filter appears as exactly one posting line, in the      *)
(* block whose date equals the date part of its Completion Time, with its  *)
(* own details and derived amount (paid_in if paid_in > 0, otherwise       *)
(* withdrawn); no posting is duplicated, dropped or moved to another date, *)
(* and the number of posting lines equals the number of accepted records:  *)
(* the accepted records and the posting lines correspond one to one.       *)
C22_LedgerConservesRecords ==
    RunCompleted =>
        /\ Cardinality(Postings) = Cardinality(AcceptedRows)
        /\ \E f \in [AcceptedRows -> Postings] :
             /\ \A k, l \in AcceptedRows : k # l => f[k] # f[l]
             /\ \A k \in AcceptedRows : PostingOf(f[k], k)
        /\ out_opened <=> AcceptedRows # {}

\* Two records alike in every field were accepted: the file has a posting
\* for each.
C22_Witness ==
    /\ RunCompleted
    /\ Len(rows) = 2
    /\ rows[1] = rows[2]
    /\ AcceptedRows = {1, 2}
    /\ Cardinality(Postings) = 2

----------------------------------------------------------------------------
(* Runs of ledgerfy_main whose output file may exist beforehand, over a    *)
(* valid and an invalid configuration and over well-formed and malformed   *)
(* records.                                                                *)

\* The content of an output file left by an earlier run.
OldLedger ==
    DateBlock(Date1, << [account |-> ExpensesFood, amount |-> 700,
                         details |-> <<"a">>, balance |-> 2500,
                         timestamp |-> Date1 \o <<" ">> \o Time1] >>)

\* An accepted record, a failed one, one with a Paid In that is not a
\* number, and one without its Balance column.
FrameRowPool ==
    LET good == [Details |-> <<"a">>, paid |-> <<"7">>, withdrawn |-> <<>>,
                 Balance |-> <<"2", "5">>, status |-> Completed]
        at == Date2 \o <<" ">> \o Time1
    IN  { MakeRow(at, good),
          MakeRow(at, [good EXCEPT !.status = <<"F", "a", "i", "l", "e", "d">>]),
          MakeRow(at, [good EXCEPT !.paid = NotDecimal]),
          [col \in RowColumns \ {"Balance"} |-> MakeRow(at, good)[col]] }

InitFrame ==
    /\ config \in SmsConfigs
    /\ pc = "main"
    /\ input_exists = TRUE
    /\ rows \in SeqsUpTo(FrameRowPool, MaxRows)
    /\ start_date = Date1
    /\ end_date = <<>>
    /\ row_i = 0
    /\ transactions_by_date = <<>>
    /\ out_opened = FALSE
    /\ ledger_file \in {<<>>, OldLedger}
    /\ stdout = <<>>
    /\ exit_code = -1
    /\ ClassifyIdle
    /\ ExtractIdle

SpecFrame == InitFrame /\ [][Next]_vars

\* The run ended with a config error or an error raised while processing a
\* record, or with an empty result.
EndedWithoutLedger ==
    /\ RunEnded
    /\ \/ exit_code = 1
       \/ HasMessage("No transactions found in the date range")

(* C23. The output file is opened for writing only after the config has    *)
(* been validated and every input record has been filtered and classified, *)
(* and it is not written before it is opened; so whenever the run ends     *)
(* with a config error, an error raised while processing any record, or an *)
(* empty result, the output file was never opened: a pre-existing file is  *)
(* as it was and no partial ledger exists.                                 *)
C23_OutputOpenedLast ==
    /\ [][ (~out_opened /\ out_opened') =>
             /\ HasMessage("Configuration validated")
             /\ pc = "rows"
             /\ row_i = Len(rows) ]_vars
    /\ [][ ~out_opened' => ledger_file' = ledger_file ]_vars
    /\ [](EndedWithoutLedger =>
            (~out_opened /\ ledger_file \in {<<>>, OldLedger}))

\* The second record raised after the first had been accepted: the run
\* ended with status 1 and the earlier file is as it was.
C23_Witness ==
    /\ pc = "done"
    /\ exit_code = 1
    /\ row_i = 1
    /\ DOMAIN transactions_by_date # {}
    /\ ~out_opened
    /\ ledger_file = OldLedger

----------------------------------------------------------------------------
(* Calls of categorize_transaction under rules whose keywords and exclude  *)
(* keywords are written with upper-case letters.                           *)

\* An "any" rule with an upper-case keyword only, a rule excluded by an
\* upper-case keyword, an "all" rule with one upper-case keyword, a rule
\* with keywords and exclude keywords of both kinds, and a rule written in
\* lower case throughout.
UpperCaseRulePool ==
    { [account |-> ExpensesFood, keywords |-> << <<"A">> >>],
      [account |-> IncomeSalary, keywords |-> << <<"a">> >>,
       exclude |-> << <<"A">> >>],
      [account |-> ExpensesFood, keywords |-> << <<"a">>, <<"B">> >>,
       match_type |-> "all"],
      [account |-> ExpensesFood, keywords |-> << <<"A">>, <<"b">> >>,
       match_type |-> "any", exclude |-> << <<"A">>, <<"a", "b">> >>],
      [account |-> IncomeSalary, keywords |-> << <<"b">> >>,
       condition |-> "amount > 1"] }

UpperCaseConfigs ==
    { [accounts |-> Accounts, rules |-> rs, default_account |-> AssetsExpenses] :
        rs \in SeqsUpTo(UpperCaseRulePool, MaxRules) }

InitUpperCase ==
    /\ config \in UpperCaseConfigs
    /\ cpc = "call"
    /\ details \in SeqsUpTo(DetailChars \cup {"B"}, MaxDetailsLen)
    /\ amount \in ClassifyAmounts
    /\ details_lower = <<>>
    /\ rule_i = 0
    /\ evaluated = {}
    /\ result = NoAccount
    /\ returned_by = 0
    /\ LedgerIdle
    /\ ExtractIdle

SpecUpperCase == InitUpperCase /\ [][NextClassify]_vars

\* The keyword has an upper-case letter.
HasUpper(k) == \E i \in 1..Len(k) : \E u \in 1..Len(UpperCase) : k[i] = UpperCase[u]

UpperKeywords(i) ==
    {j \in 1..Len(TheRules[i]["keywords"]) : HasUpper(TheRules[i]["keywords"][j])}

\* The exclude keywords of rule i that are written in lower case and occur
\* in the details, letter case of the details aside.
LowerExcludeHits(i) ==
    IF "exclude" \in DOMAIN TheRules[i]
    THEN {j \in 1..Len(TheRules[i]["exclude"]) :
            /\ ~HasUpper(TheRules[i]["exclude"][j])
            /\ IsSubstring(TheRules[i]["exclude"][j], Lower(details))}
    ELSE {}

\* The keywords of rule i written in lower case that occur in the details,
\* letter case of the details aside.
LowerKeywordsFound(i) ==
    {j \in 1..Len(TheRules[i]["keywords"]) :
        /\ ~HasUpper(TheRules[i]["keywords"][j])
        /\ IsSubstring(TheRules[i]["keywords"][j], Lower(details))}

(* C24. Only the details are lower-cased; rule keywords and exclude        *)
(* keywords are compared as written. A keyword with an upper-case letter   *)
(* is never found in any details: an "any" rule whose keywords all have    *)
(* upper-case letters and an "all" rule with one such keyword never match, *)
(* and a rule passes the keyword test by its lower-case keywords alone.    *)
(* An exclude keyword with an upper-case letter never suppresses a rule:   *)
(* a rule whose lower-case keywords pass is suppressed only by a           *)
(* lower-case exclude keyword that occurs in the details.                  *)
C24_KeywordsComparedAsWritten ==
    [][ AtRule =>
          LET n == Len(TheRules[rule_i]["keywords"])
              found == Cardinality(LowerKeywordsFound(rule_i))
              passes == IF IsAllRule(rule_i) THEN n > 0 /\ found = n
                        ELSE found >= 1
          IN  /\ (IsAllRule(rule_i) /\ UpperKeywords(rule_i) # {})
                   => SkippedUnevaluated
              /\ (~IsAllRule(rule_i) /\ Cardinality(UpperKeywords(rule_i)) = n)
                   => SkippedUnevaluated
              /\ PassedKeywordTest <=> (passes /\ LowerExcludeHits(rule_i) = {})
      ]_vars

\* The details hold "A" and "a". The first rule, whose only keyword is "A",
\* was passed; the second, with keyword "a" and exclude keyword "A",
\* returned.
C24_Witness ==
    /\ Returned
    /\ details = <<"A", "a">>
    /\ Len(TheRules) = 2
    /\ TheRules[1]["keywords"] = << <<"A">> >>
    /\ TheRules[2]["keywords"] = << <<"a">> >>
    /\ "exclude" \in DOMAIN TheRules[2]
    /\ TheRules[2]["exclude"] = << <<"A">> >>
    /\ returned_by = 2

====
